---- MODULE Spec2Model ----
(***************************************************************************)
(* A model of jattach-go: the attach coordinator (AttachWithContext), the  *)
(* HotSpot protocol (AttachHotSpot, startAttachMechanism, writeCommand)    *)
(* and the OpenJ9 protocol (AttachOpenJ9 and its helpers).                 *)
(*                                                                         *)
(* Strings are sequences of one-character strings; NUL is the byte 0.      *)
(* Go's defer is a stack of pending calls that a return pops one by one.   *)
(* An error value is the chain that errors.Unwrap walks, outermost first;  *)
(* the nil error is the empty chain.                                       *)
(***************************************************************************)
EXTENDS Integers, Sequences, FiniteSets, TLC

VARIABLES
    pc,          \* position of the attach call
    cmd,         \* the verb
    args,        \* the caller's argument slice (its backing array)
    in0,         \* the argument list as it was supplied (history)
    wire,        \* bytes written to the HotSpot socket
    pid,         \* host PID passed by the caller
    nspid,       \* info.NsPID
    alive,       \* the target process exists (kill(pid, 0) succeeds)
    egid,        \* effective GID of the calling thread: "self" or "target"
    euid,        \* effective UID of the calling thread: "self" or "target"
    nsIdx,       \* namespaces tried so far by the loop over net, ipc, mnt
    result,      \* the loop's result: what EnterNamespace returned last
    mntChanged,  \* AttachWithContext's mntChanged
    tmpPath,     \* the resolved temporary directory
    tmpIn,       \* what the resolution found: option, environment, platform
    clientOptions, \* c.options: Timeout, in milliseconds
    cause,       \* the error the failing call returned (history)
    thr,         \* the OS thread each goroutine is running on
    tns,         \* the namespaces each OS thread was switched into
    entered,     \* the namespaces this attach switched into
    ran,         \* the last step executed: by whom, under what identity
    clients,     \* concurrent AttachOpenJ9 calls: position, pending defers
    kflock,      \* the holder of the exclusive flock of each lock file
    replyInfos,  \* per target, the client whose replyInfo file is there
    lastOp,      \* the last file or semaphore operation of a client
    jvmType,     \* "HotSpot" or "OpenJ9"
    perr,        \* error returned by the protocol handler (chain)
    err,         \* error returned by AttachWithContext (chain)
    resp,        \* response: <<>> for nil, else <<[Code |-> c]>>
    reply,       \* the bytes the JVM sent in reply (history)
    data,        \* the bytes read before the reply is parsed
    stdout,      \* what was written to standard output
    defers,      \* stack of deferred calls of the running function
    relLog,      \* releases performed, in order (history)
    attachPath,  \* startAttachMechanism's attachPath
    primaryPath, \* the first attachPath computed (history)
    trigFiles,   \* directories that hold a .attach_pid<nspid> file
    created,     \* directories in which this attach created one (history)
    sockFile,    \* what <tmpPath>/.java_pid<nspid> is: absent, file, socket
    sigquit,     \* the PIDs SIGQUIT was sent to
    ctxDone,     \* the context is cancelled
    now,         \* milliseconds since the poll deadline was computed
    delay,       \* the poll loop's delay, in milliseconds
    diedAt,      \* value of now when the process died (history)
    conn,        \* the connection: "none", "open", "closed"
    attachLock,  \* the global _attachlock: "none", "held", "released"
    listener,    \* the TCP listener: "none", "open", "closed"
    replyInfo,   \* the replyInfo file exists
    key,         \* the authentication key
    notifLocks,  \* the slice returned by lockNotificationFiles
    notifHeld,   \* notifier files currently locked by this client
    nAcq,        \* file locks acquired (history)
    nRel,        \* file locks released (history)
    semLog,      \* semaphore operations performed, in order (history)
    authBuf,     \* acceptClient's authBuf once it was filled, else <<>>
    j9sent       \* commands written to the OpenJ9 connection

thrVars == <<thr, tns, entered, ran>>
clientVars == <<clients, kflock, replyInfos, lastOp>>
concVars == <<thrVars, clientVars>>
coordVars == <<pid, clientOptions, nspid, egid, euid, nsIdx, result, mntChanged,
               tmpPath, tmpIn, cause, jvmType, err, concVars>>
hsVars == <<attachPath, primaryPath, trigFiles, created, sockFile, sigquit,
            ctxDone, now, delay, diedAt>>
j9Vars == <<attachLock, listener, replyInfo, key, notifLocks, notifHeld, nAcq,
            nRel, semLog, authBuf, j9sent>>
protoVars == <<perr, resp, reply, data, stdout, defers, relLog, conn,
              alive>>

vars == <<pc, cmd, args, in0, wire, coordVars, hsVars, j9Vars, protoVars>>

----------------------------------------------------------------------------
(* Strings and bytes                                                       *)

NUL == "NUL"
SP == " "

Str_1 == <<"1">>
jcmd == <<"j", "c", "m", "d">>
load == <<"l", "o", "a", "d">>
setflag == <<"s", "e", "t", "f", "l", "a", "g">>

threaddump ==
    <<"t", "h", "r", "e", "a", "d", "d", "u", "m", "p">>
dumpheap ==
    <<"d", "u", "m", "p", "h", "e", "a", "p">>
inspectheap ==
    <<"i", "n", "s", "p", "e", "c", "t", "h", "e", "a", "p">>
datadump ==
    <<"d", "a", "t", "a", "d", "u", "m", "p">>
properties ==
    <<"p", "r", "o", "p", "e", "r", "t", "i", "e", "s">>
agentProperties ==
    <<"a", "g", "e", "n", "t", "P", "r", "o", "p", "e", "r", "t", "i", "e",
      "s">>
printflag ==
    <<"p", "r", "i", "n", "t", "f", "l", "a", "g">>

\* the longest argument list supplied
MaxArgs == 5

\* strings.Join(list, sep)
RECURSIVE Join(_, _)
Join(list, sep) ==
    IF Len(list) = 0 THEN <<>>
    ELSE IF Len(list) = 1 THEN list[1]
    ELSE list[1] \o <<sep>> \o Join(Tail(list), sep)

\* number of NUL bytes in a byte string
RECURSIVE CountNul(_)
CountNul(bytes) ==
    IF Len(bytes) = 0 THEN 0
    ELSE (IF Head(bytes) = NUL THEN 1 ELSE 0) + CountNul(Tail(bytes))

\* the fields of a byte string in which every field is followed by a NUL;
\* bytes after the last NUL are a final, unterminated field
RECURSIVE SplitNul(_, _)
SplitNul(bytes, cur) ==
    IF Len(bytes) = 0 THEN (IF Len(cur) = 0 THEN <<>> ELSE <<cur>>)
    ELSE IF Head(bytes) = NUL THEN <<cur>> \o SplitNul(Tail(bytes), <<>>)
    ELSE SplitNul(Tail(bytes), Append(cur, Head(bytes)))

Fields(bytes) == SplitNul(bytes, <<>>)

\* the line feed and carriage return bytes
LF == "LF"
CR == "CR"

\* strings.HasPrefix(s, prefix)
HasPrefix(str, prefix) ==
    Len(str) >= Len(prefix) /\ SubSeq(str, 1, Len(prefix)) = prefix

\* s[i:] with i counted from 0, as the source does
From(str, i) == SubSeq(str, i + 1, Len(str))

\* position of the first LF of a string, 0 when it has none
RECURSIVE IndexLF(_, _)
IndexLF(str, i) ==
    IF i > Len(str) THEN 0
    ELSE IF str[i] = LF THEN i
    ELSE IndexLF(str, i + 1)

\* strings.SplitN(s, "\n", n)[0] for n >= 2: the text before the first LF
Line1(str) ==
    IF IndexLF(str, 1) = 0 THEN str ELSE SubSeq(str, 1, IndexLF(str, 1) - 1)

\* strings.TrimSpace(s)
TrimSpace(str) ==
    LET IsSpace(ch) == ch \in {SP, LF, CR}
        RECURSIVE TrimLeft(_)
        TrimLeft(t) ==
            IF Len(t) > 0 /\ IsSpace(t[1]) THEN TrimLeft(Tail(t)) ELSE t
        RECURSIVE TrimRight(_)
        TrimRight(t) ==
            IF Len(t) > 0 /\ IsSpace(t[Len(t)])
            THEN TrimRight(SubSeq(t, 1, Len(t) - 1))
            ELSE t
    IN TrimRight(TrimLeft(str))

IsDigit(ch) == ch \in {"0", "1", "2", "3", "4", "5", "6", "7", "8", "9"}

\* the value of a string of decimal digits
RECURSIVE DigitsVal(_)
DigitsVal(str) ==
    LET Digits == <<"0", "1", "2", "3", "4", "5", "6", "7", "8", "9">>
        DigitVal(ch) == (CHOOSE d \in 1..10 : Digits[d] = ch) - 1
    IN IF Len(str) = 0 THEN 0
       ELSE 10 * DigitsVal(SubSeq(str, 1, Len(str) - 1))
            + DigitVal(str[Len(str)])

\* a conversion that stops at the first character that is not a digit
AtoiLeadingDigits(str) ==
    LET RECURSIVE DigitPrefix(_)
        DigitPrefix(t) ==
            IF Len(t) > 0 /\ IsDigit(t[1])
            THEN <<t[1]>> \o DigitPrefix(Tail(t))
            ELSE <<>>
        signed == Len(str) > 0 /\ str[1] \in {"-", "+"}
        digits == DigitPrefix(IF signed THEN Tail(str) ELSE str)
    IN IF signed /\ str[1] = "-" THEN 0 - DigitsVal(digits)
       ELSE DigitsVal(digits)

\* code, _ = strconv.Atoi(s): the value, and 0 when the syntax is wrong,
\* which is anything but an optional sign and then digits only (numbers
\* stay far from the range of int)
Atoi(str) ==
    LET AllDigits(t) == Len(t) > 0 /\ \A i \in 1..Len(t) : IsDigit(t[i])
        AtoiOK ==
            /\ Len(str) > 0
            /\ IF str[1] \in {"-", "+"} THEN AllDigits(Tail(str))
                                        ELSE AllDigits(str)
    IN IF ~AtoiOK THEN 0
       ELSE IF str[1] = "-" THEN 0 - DigitsVal(Tail(str))
       ELSE IF str[1] = "+" THEN DigitsVal(Tail(str))
       ELSE DigitsVal(str)

----------------------------------------------------------------------------
(* writeCommand (hotspot.go)                                               *)

\* the jcmd branch taken without regard to the verb's other arguments
MergeArgsNoJcmd(c, a) ==
    IF Len(a) > 3
    THEN Append(SubSeq(a, 1, 3), Join(SubSeq(a, 4, Len(a)), SP))
    ELSE a

\* cmdArgs: jcmd keeps its first argument and merges the rest; any other
\* verb with more than three arguments gets the extras joined as a FOURTH
\* element, append(args[:3], merged)
MergeArgs(c, a) ==
    IF c = jcmd /\ Len(a) > 1
    THEN <<a[1], Join(Tail(a), SP)>>
    ELSE IF Len(a) > 3
    THEN Append(SubSeq(a, 1, 3), Join(SubSeq(a, 4, Len(a)), SP))
    ELSE a

\* append(args[:3], merged) writes merged into the caller's backing array
\* at index 3 (the slice has len > 3, so its capacity suffices)
ArgsAfter(c, a) ==
    IF c = jcmd /\ Len(a) > 1 THEN a
    ELSE IF Len(a) > 3
    THEN [a EXCEPT ![4] = Join(SubSeq(a, 4, Len(a)), SP)]
    ELSE a

\* the padding loop with the NUL written only after a present argument
WriteSlotsUnpadded(cmdArgs) ==
    LET slot(i) == IF i <= Len(cmdArgs) THEN cmdArgs[i] \o <<NUL>> ELSE <<>>
    IN slot(1) \o slot(2) \o slot(3)

\* for i := 0; i < 3; i++ { if i < len(cmdArgs) {write arg}; write 0 }
WriteSlots(cmdArgs) ==
    LET slot(i) == (IF i <= Len(cmdArgs) THEN cmdArgs[i] ELSE <<>>) \o <<NUL>>
    IN slot(1) \o slot(2) \o slot(3)

\* the bytes handed to conn.Write
Frame(c, a) ==
    Str_1 \o <<NUL>> \o c \o <<NUL>> \o WriteSlots(MergeArgs(c, a))

----------------------------------------------------------------------------
(* Paths, keys and process identifiers                                     *)

\* host PIDs and the PIDs the target may have in its own namespace
Pids == {4321}
NsPids == {4321, 1}

\* a trigger path: dir is "cwd" for /proc/<proc>/cwd/.attach_pid<nspid>,
\* "tmp" for <tmpPath>/.attach_pid<nspid>
NoPath == [dir |-> "none", proc |-> 0]
ProcCwdPath(p) == [dir |-> "cwd", proc |-> p]

\* keys are uint64 values; -1 stands for the key not yet generated
Keys == {161, 45746}

----------------------------------------------------------------------------
(* The framing specification: writeCommand on every verb and argument list *)

\* the goroutine of the attach call and another goroutine of the process;
\* the OS threads the Go runtime schedules them on
Goroutines == {"attach", "other"}
NumThreads == 3
Threads == 1..NumThreads

\* the most per-JVM directories under .com_ibm_tools_attach
MaxDirs == 3

\* the concurrent callers of AttachOpenJ9 on one tmpPath
NumClients == 2
Clients == 1..NumClients
NoClient == 0

\* the lock files under <tmpPath>/.com_ibm_tools_attach: _attachlock and
\* the attachNotificationSync of each numbered directory
AttachLockFile == 0
LockFiles == 0..MaxDirs

\* if opts.Timeout == 0 { opts.Timeout = 6 * time.Second }
DefaultTimeoutMs == 6000

\* NewClientWithOptions(opts); NewClient() builds the same options
NewClientWithOptions(opts) ==
    IF opts.Timeout = 0 THEN [opts EXCEPT !.Timeout = DefaultTimeoutMs]
    ELSE opts

\* the state at the entry of AttachWithContext, inputs and reply aside
InitState(conn0, defers0, opts) ==
    /\ alive = TRUE
    /\ clientOptions = NewClientWithOptions(opts)
    /\ egid = "self"
    /\ euid = "self"
    /\ nsIdx = 0
    /\ result = 0
    /\ mntChanged = 0
    /\ tmpPath = ""
    /\ tmpIn = [opt |-> "", env |-> "", platformOK |-> FALSE]
    /\ cause = <<>>
    /\ thr = [g \in Goroutines |-> IF g = "attach" THEN 1 ELSE 2]
    /\ tns = [t \in Threads |-> {}]
    /\ entered = {}
    /\ ran = [who |-> "none", ns |-> {}, gid |-> "self", uid |-> "self"]
    /\ clients = [c \in Clients |->
                    [at |-> "none", nspid |-> 0, defers |-> <<>>,
                     notifLocks |-> <<>>, want |-> AttachLockFile]]
    /\ kflock = [f \in LockFiles |-> NoClient]
    /\ replyInfos = [n \in NsPids |-> NoClient]
    /\ lastOp = [who |-> NoClient, op |-> "none", held |-> FALSE]
    /\ jvmType = "Unknown"
    /\ perr = <<>>
    /\ err = <<>>
    /\ resp = <<>>
    /\ data = <<>>
    /\ stdout = <<>>
    /\ defers = defers0
    /\ relLog = <<>>
    /\ attachPath = NoPath
    /\ primaryPath = NoPath
    /\ trigFiles = {}
    /\ created = {}
    /\ sigquit = {}
    /\ ctxDone = FALSE
    /\ now = 0
    /\ delay = 0
    /\ diedAt = 0
    /\ conn = conn0
    /\ attachLock = "none"
    /\ listener = "none"
    /\ replyInfo = FALSE
    /\ key = -1
    /\ notifLocks = <<>>
    /\ notifHeld = {}
    /\ nAcq = 0
    /\ nRel = 0
    /\ semLog = <<>>
    /\ authBuf = <<>>
    /\ j9sent = <<>>

\* no connection yet, nothing deferred
InitRest == InitState("none", <<>>, [PrintOutput |-> FALSE, Timeout |-> 0])

InitFrame ==
    /\ pc = "frame"
    /\ cmd \in {jcmd, load, setflag}
    /\ args \in LET ArgStrings == {<<>>, <<"a">>, <<"b">>, <<"a", SP, "b">>}
                IN UNION {[1..n -> ArgStrings] : n \in 0..MaxArgs}
    /\ in0 = args
    /\ wire = <<>>
    /\ pid \in Pids
    /\ nspid = pid
    /\ sockFile = "socket"
    /\ reply = <<>>
    /\ InitRest

FrameWriteCommand ==
    /\ pc = "frame"
    /\ wire' = wire \o Frame(cmd, args)
    /\ args' = ArgsAfter(cmd, args)
    /\ pc' = "frame_done"
    /\ UNCHANGED <<cmd, in0, coordVars, hsVars, j9Vars, protoVars>>

NextFrame == FrameWriteCommand

SpecFrame == InitFrame /\ [][NextFrame]_vars

----------------------------------------------------------------------------
(* Errors (part_000): a chain of error values, outermost first             *)

\* fmt.Errorf / errors.New values
ErrNode(m) == [msg |-> m, op |-> "", pid |-> 0, sentinel |-> FALSE]
\* package-level sentinel values, compared by identity
Sentinel(m) == [msg |-> m, op |-> "", pid |-> 0, sentinel |-> TRUE]

ErrProcessNotFound == Sentinel("process not found")
ErrPermissionDenied == Sentinel("permission denied")
ErrConnectionFailed == Sentinel("connection failed")
ErrTimeout == Sentinel("timeout")
ErrDeadlineExceeded == Sentinel("i/o timeout")

\* fmt.Errorf("...") without %w
Errorf(m) == <<ErrNode(m)>>
\* fmt.Errorf("...: %w", e)
Wrapf(m, e) == <<ErrNode(m)>> \o e

\* wrapError(op, pid, err): nil stays nil, else &AttachError{op, pid, err}
wrapError(op, p, e) ==
    IF e = <<>> THEN <<>>
    ELSE <<[msg |-> "jattach", op |-> op, pid |-> p, sentinel |-> FALSE]>> \o e

\* errors.Is(e, target): some error of the Unwrap chain is target
ErrorsIs(e, target) == \E i \in 1..Len(e) : e[i] = target

----------------------------------------------------------------------------
(* The attach coordinator, AttachWithContext (part_001)                    *)

NsTypes == <<"net", "ipc", "mnt">>

\* what EnterNamespace can return: 1 switched, 0 same namespace, -1 failed
\* (with an error); a process that is gone has no /proc/<pid>/ns to stat
EnterNamespace(isAlive) == IF isAlive THEN {1, 0, -1} ELSE {-1}

\* mntChanged taken from a switch of any namespace, not of mnt alone
MntChangedAnyNs(nsType, res, old) ==
    IF res > 0 THEN res ELSE old

\* if nsType == "mnt" && result > 0 { mntChanged = result }
MntChangedAfter(nsType, res, old) ==
    IF nsType = "mnt" /\ res > 0 THEN res ELSE old

\* process.GetTmpPath(pid) (info.go): the platform path; when that fails,
\* JATTACH_PATH if it is set, else "/tmp" and the error
GetTmpPath(envTmp, platformOK) ==
    LET \* getTmpPathPlatform(pid): /proc/<pid>/root/tmp when stat finds
        \* it, else "/tmp" and the error
        platform ==
            IF platformOK THEN [path |-> "/proc/<pid>/root/tmp", err |-> FALSE]
            ELSE [path |-> "/tmp", err |-> TRUE]
    IN IF platform.err
       THEN IF envTmp # "" THEN [path |-> envTmp, err |-> FALSE]
            ELSE [path |-> "/tmp", err |-> TRUE]
       ELSE platform

\* the resolution with the environment consulted before the option
ResolveTmpPathEnvFirst(optTmp, envTmp, platformOK) ==
    IF envTmp # "" THEN envTmp
    ELSE IF optTmp # "" THEN optTmp
    ELSE IF GetTmpPath(envTmp, platformOK).err THEN "/tmp"
    ELSE GetTmpPath(envTmp, platformOK).path

\* tmpPath := c.options.TmpPath; if empty, os.Getenv("JATTACH_PATH"); if
\* still empty, process.GetTmpPath(pid), and "/tmp" when that fails
ResolveTmpPath(optTmp, envTmp, platformOK) ==
    IF optTmp # "" THEN optTmp
    ELSE IF envTmp # "" THEN envTmp
    ELSE IF GetTmpPath(envTmp, platformOK).err THEN "/tmp"
    ELSE GetTmpPath(envTmp, platformOK).path

\* syscall.Setgid / syscall.Setuid fail with an errno
Eperm == Errorf("operation not permitted")

\* goroutine g executes on its thread: in the namespaces the thread is in
\* and under the credentials of the process (syscall.Setgid and
\* syscall.Setuid change them for every thread)
RunsAs(g) == [who |-> g, ns |-> tns[thr[g]], gid |-> egid, uid |-> euid]

\* unix.Setns(fd, 0) moves the calling thread, and only it, into the
\* namespace; EnterNamespace returns 1 exactly when it succeeded
SetnsOnThread(t, nsType, r, f) ==
    IF r = 1 THEN [f EXCEPT ![t] = @ \cup {nsType}] ELSE f

\* process.GetProcessInfo(pid): /proc/<pid>/status must open and scan; the
\* coordinator returns ErrProcessNotFound in place of the error it got
GetProcessInfo ==
    /\ pc = "GetProcessInfo"
    /\ \/ /\ alive
          /\ pc' = "EnterNamespace"
          /\ UNCHANGED <<err, cause>>
       \/ /\ cause' \in
                {Wrapf("process not found", Errorf("open /proc/<pid>/status")),
                 Wrapf("error reading /proc/<pid>/status",
                       Errorf("read /proc/<pid>/status"))}
          /\ err' = wrapError("get_process_info", pid, <<ErrProcessNotFound>>)
          /\ pc' = "done"
    /\ UNCHANGED <<cmd, args, in0, wire, pid, clientOptions, nspid, egid, euid, nsIdx, result,
                   mntChanged, tmpPath, tmpIn, jvmType, concVars, hsVars, j9Vars,
                   protoVars>>

\* one iteration of the loop over net, ipc, mnt; a failure is only logged
\* (threads: whether the step is followed down to the OS thread it runs
\* on; the thread bookkeeping is kept only where goroutines are scheduled)
EnterNamespacesOn(threads) ==
    /\ pc = "EnterNamespace"
    /\ nsIdx' = nsIdx + 1
    /\ result' \in EnterNamespace(alive)
    /\ mntChanged' = MntChangedAfter(NsTypes[nsIdx'], result', mntChanged)
    /\ tns' = IF threads
                THEN SetnsOnThread(thr["attach"], NsTypes[nsIdx'], result', tns)
                ELSE tns
    /\ entered' = IF threads /\ result' = 1
                    THEN entered \cup {NsTypes[nsIdx']}
                    ELSE entered
    /\ pc' = IF nsIdx' = Len(NsTypes) THEN "Setgid" ELSE "EnterNamespace"
    /\ UNCHANGED <<cmd, args, in0, wire, pid, clientOptions, nspid, egid, euid, tmpPath,
                   tmpIn, cause, jvmType, err, thr, ran, clientVars, hsVars,
                   j9Vars, protoVars>>

EnterNamespaces == EnterNamespacesOn(FALSE)

EnterNamespacesOnThread == EnterNamespacesOn(TRUE)

\* AttachWithContext never calls runtime.LockOSThread, so the Go scheduler
\* may continue a goroutine on any thread no goroutine is running on, at
\* any of the system calls of the attach
Reschedule ==
    /\ \E g \in Goroutines, t \in Threads :
          /\ \A h \in Goroutines : thr[h] # t
          /\ thr' = [thr EXCEPT ![g] = t]
    /\ UNCHANGED <<pc, cmd, args, in0, wire, pid, clientOptions, nspid, egid, euid, nsIdx,
                   result, mntChanged, tmpPath, tmpIn, cause, jvmType, err,
                   tns, entered, ran, clientVars, hsVars, j9Vars, protoVars>>

\* another goroutine of the process executes on the thread it is on: no
\* thread is retired or reserved by the attach
OtherWork ==
    /\ ran' = RunsAs("other")
    /\ UNCHANGED <<pc, cmd, args, in0, wire, pid, clientOptions, nspid, egid, euid, nsIdx,
                   result, mntChanged, tmpPath, tmpIn, cause, jvmType, err,
                   thr, tns, entered, clientVars, hsVars, j9Vars, protoVars>>

\* setgid whose failure is passed over
SetgidUnchecked ==
    /\ pc = "Setgid"
    /\ \/ /\ egid' = "target"
          /\ UNCHANGED cause
       \/ /\ cause' = Eperm
          /\ UNCHANGED egid
    /\ pc' = "Setuid"
    /\ UNCHANGED <<cmd, args, in0, wire, pid, clientOptions, nspid, euid, nsIdx, result,
                   mntChanged, tmpPath, tmpIn, jvmType, err, concVars, hsVars,
                   j9Vars, protoVars>>

\* if err := syscall.Setgid(int(info.GID)); err != nil { return ... }
Setgid ==
    /\ pc = "Setgid"
    /\ \/ /\ egid' = "target"
          /\ pc' = "Setuid"
          /\ UNCHANGED <<err, cause>>
       \/ /\ cause' = Eperm
          /\ err' = wrapError("setgid", pid, <<ErrPermissionDenied>>)
          /\ pc' = "done"
          /\ UNCHANGED egid
    /\ UNCHANGED <<cmd, args, in0, wire, pid, clientOptions, nspid, euid, nsIdx, result,
                   mntChanged, tmpPath, tmpIn, jvmType, concVars, hsVars, j9Vars,
                   protoVars>>

\* if err := syscall.Setuid(int(info.UID)); err != nil { return ... }
Setuid ==
    /\ pc = "Setuid"
    /\ \/ /\ euid' = "target"
          /\ pc' = "TmpPath"
          /\ UNCHANGED <<err, cause>>
       \/ /\ cause' = Eperm
          /\ err' = wrapError("setuid", pid, <<ErrPermissionDenied>>)
          /\ pc' = "done"
          /\ UNCHANGED euid
    /\ UNCHANGED <<cmd, args, in0, wire, pid, clientOptions, nspid, egid, nsIdx, result,
                   mntChanged, tmpPath, tmpIn, jvmType, concVars, hsVars, j9Vars,
                   protoVars>>

DetermineTmpPathOn(threads) ==
    /\ pc = "TmpPath"
    /\ \E optTmp \in {"", "/custom/tmp"}, envTmp \in {"", "/env/tmp"},
          platformOK \in BOOLEAN :
          /\ tmpIn' = [opt |-> optTmp, env |-> envTmp, platformOK |-> platformOK]
          /\ tmpPath' = ResolveTmpPath(optTmp, envTmp, platformOK)
    /\ ran' = IF threads THEN RunsAs("attach") ELSE ran
    /\ pc' = "Detect"
    /\ UNCHANGED <<cmd, args, in0, wire, pid, clientOptions, nspid, egid, euid, nsIdx, result,
                   mntChanged, cause, jvmType, err, thr, tns, entered,
                   clientVars, hsVars, j9Vars, protoVars>>

DetermineTmpPath == DetermineTmpPathOn(FALSE)

DetermineTmpPathOnThread == DetermineTmpPathOn(TRUE)

\* IsOpenJ9Process: <tmpPath>/.com_ibm_tools_attach/<nspid>/attachInfo
\* exists or not; then the dispatch to the protocol handler
DetectAndDispatchOn(threads) ==
    /\ pc = "Detect"
    /\ \E attachInfoExists \in BOOLEAN :
          /\ jvmType' = IF attachInfoExists THEN "OpenJ9" ELSE "HotSpot"
          /\ pc' = IF attachInfoExists THEN "j9_lock" ELSE "hs_checkSocket"
    /\ ran' = IF threads THEN RunsAs("attach") ELSE ran
    /\ UNCHANGED <<cmd, args, in0, wire, pid, clientOptions, nspid, egid, euid, nsIdx, result,
                   mntChanged, tmpPath, tmpIn, cause, err, thr, tns, entered,
                   clientVars, hsVars, j9Vars, protoVars>>

DetectAndDispatch == DetectAndDispatchOn(FALSE)

DetectAndDispatchOnThread == DetectAndDispatchOn(TRUE)

\* if err != nil { return nil, wrapError("attach", pid, err) }; else the
\* protocol's response is converted and returned
WrapResult ==
    /\ pc = "Wrap"
    /\ err' = wrapError("attach", pid, perr)
    /\ cause' = perr
    /\ resp' = IF perr # <<>> THEN <<>> ELSE resp
    /\ pc' = "done"
    /\ UNCHANGED <<cmd, args, in0, wire, pid, clientOptions, nspid, egid, euid, nsIdx, result,
                   mntChanged, tmpPath, tmpIn, jvmType, concVars, hsVars, j9Vars,
                   perr, reply, data, stdout, defers, relLog, conn, alive>>

----------------------------------------------------------------------------
(* Deferred calls and returns                                              *)

\* a defer statement pushed below the pending ones (runs after them)
PushDeferBelow(stack, call) == <<call>> \o stack

\* a defer statement: the call is pushed; a return runs the stack top first
PushDefer(stack, call) == Append(stack, call)

\* a path under /proc/<pid>/cwd resolves only while the process exists
Resolves(path) == path.dir = "tmp" \/ (path.dir = "cwd" /\ alive)

\* os.Remove(path) on the trigger files: nothing happens when the path does
\* not resolve (the error is ignored by every caller)
RemoveTrigger(files, path) ==
    IF Resolves(path) THEN files \ {path.dir} ELSE files

\* n copies of x
Repeat(x, n) == [i \in 1..n |-> x]

\* notifySemaphore(tmpPath, value, count) stopping one operation short
SemOpsShort(value, count, obtained) ==
    IF count = 0 \/ ~obtained THEN <<>> ELSE Repeat(value, count - 1)

\* notifySemaphore(tmpPath, value, count) (part_004): nothing for count 0;
\* nothing when ftok or semget fails (obtained = FALSE); else count semops
\* of value, each failure of which is swallowed
SemOps(value, count, obtained) ==
    IF count = 0 \/ ~obtained THEN <<>> ELSE Repeat(value, count)

\* one deferred call runs: the top of the stack
RunDefer ==
    /\ pc \in {"sam_return", "proto_return"}
    /\ defers # <<>>
    /\ LET call == defers[Len(defers)] IN
       /\ defers' = SubSeq(defers, 1, Len(defers) - 1)
       /\ CASE call = "os.Remove(attachPath)" ->
                 /\ trigFiles' = RemoveTrigger(trigFiles, attachPath)
                 /\ relLog' = Append(relLog, call)
                 /\ UNCHANGED <<conn, attachLock, listener, replyInfo,
                                notifHeld, nRel, semLog>>
            [] call = "conn.Close()" ->
                 /\ conn' = "closed"
                 /\ relLog' = Append(relLog, call)
                 /\ UNCHANGED <<trigFiles, attachLock, listener, replyInfo,
                                notifHeld, nRel, semLog>>
            [] call = "releaseLock(attachLock)" ->
                 /\ attachLock' = "released"
                 /\ nRel' = nRel + 1
                 /\ relLog' = Append(relLog, call)
                 /\ UNCHANGED <<trigFiles, conn, listener, replyInfo,
                                notifHeld, semLog>>
            [] call = "listener.Close()" ->
                 /\ listener' = "closed"
                 /\ relLog' = Append(relLog, call)
                 /\ UNCHANGED <<trigFiles, conn, attachLock, replyInfo,
                                notifHeld, nRel, semLog>>
            [] call = "os.Remove(replyInfoPath)" ->
                 /\ replyInfo' = FALSE
                 /\ relLog' = Append(relLog, call)
                 /\ UNCHANGED <<trigFiles, conn, attachLock, listener,
                                notifHeld, nRel, semLog>>
            [] call = "unlockNotificationFiles(notifLocks, notifCount)" ->
                 /\ notifHeld' = {}
                 /\ nRel' = nRel + Len(notifLocks)
                 /\ relLog' = relLog \o Repeat("releaseLock(notifier)", Len(notifLocks))
                 /\ UNCHANGED <<trigFiles, conn, attachLock, listener,
                                replyInfo, semLog>>
            [] call = "notifySemaphore(tmpPath, -1, notifCount)" ->
                 /\ \E obtained \in BOOLEAN :
                       /\ semLog' = semLog \o SemOps(-1, Len(notifLocks), obtained)
                       /\ relLog' = relLog \o
                            [i \in 1..Len(SemOps(-1, Len(notifLocks), obtained))
                                |-> "semop(-1)"]
                 /\ UNCHANGED <<trigFiles, conn, attachLock, listener,
                                replyInfo, notifHeld, nRel>>
    /\ UNCHANGED <<pc, cmd, args, in0, wire, coordVars, attachPath,
                   primaryPath, created, sockFile, sigquit, ctxDone, now,
                   delay, diedAt, key, notifLocks, nAcq, authBuf, j9sent, perr,
                   resp, reply, data, stdout, alive>>

\* AttachHotSpot / AttachOpenJ9 has returned to AttachWithContext
ProtoReturned ==
    /\ pc = "proto_return"
    /\ defers = <<>>
    /\ pc' = "Wrap"
    /\ UNCHANGED <<cmd, args, in0, wire, coordVars, hsVars, j9Vars, protoVars>>

----------------------------------------------------------------------------
(* The HotSpot protocol (hotspot.go)                                       *)

\* the poll loop's constants, in milliseconds
PollDelayMs == 20
PollStepMs == 20
MaxDelayMs == 500
TimeoutMs == 6000

\* the two errors the poll loop ends with
ProcessDied == ErrNode("process died while waiting for attach")
SocketTimeout == ErrNode("timeout waiting for socket to appear")

\* the probe answering "alive" whatever the process does
processIsAliveAlways(isAlive) == TRUE

\* processIsAlive(pid): kill(pid, 0) succeeds
processIsAlive(isAlive) == isAlive

\* if !checkSocket(socketPath) { startAttachMechanism(...) }
\* os.Stat(path) succeeded, whatever the mode
checkSocketExists(st) == st # "absent"

\* os.Stat(path) succeeded and info.Mode()&os.ModeSocket != 0
checkSocket(st) == st = "socket"

HSCheckSocket ==
    /\ pc = "hs_checkSocket"
    /\ pc' = IF checkSocket(sockFile) THEN "hs_dial" ELSE "hs_open"
    /\ UNCHANGED <<cmd, args, in0, wire, coordVars, hsVars, j9Vars, protoVars>>

\* the primary trigger path and os.OpenFile(attachPath, O_CREATE|O_WRONLY)
HSOpenPrimary ==
    /\ pc = "hs_open"
    \* if mntChanged > 0 { /proc/<nspid>/cwd/... } else { /proc/<pid>/cwd/... }
    /\ attachPath' = IF mntChanged > 0 THEN ProcCwdPath(nspid)
                     ELSE ProcCwdPath(pid)
    /\ primaryPath' = attachPath'
    /\ \/ /\ alive
          /\ trigFiles' = trigFiles \cup {"cwd"}
          /\ created' = created \cup {"cwd"}
          /\ pc' = "hs_owner"
       \/ /\ pc' = "hs_remove"
          /\ UNCHANGED <<trigFiles, created>>
    /\ UNCHANGED <<cmd, args, in0, wire, coordVars, sockFile, sigquit,
                   ctxDone, now, delay, diedAt, j9Vars, protoVars>>

\* err == nil: checkFileOwnership(attachPath) stats the file
HSCheckOwnership ==
    /\ pc = "hs_owner"
    /\ \E owned \in (IF Resolves(attachPath) THEN BOOLEAN ELSE {FALSE}) :
          pc' = IF owned THEN "hs_kill" ELSE "hs_remove"
    /\ UNCHANGED <<cmd, args, in0, wire, coordVars, hsVars, j9Vars, protoVars>>

\* os.Remove(attachPath); useFallback = true
HSRemovePrimary ==
    /\ pc = "hs_remove"
    /\ trigFiles' = RemoveTrigger(trigFiles, attachPath)
    /\ pc' = "hs_fallback"
    /\ UNCHANGED <<cmd, args, in0, wire, coordVars, attachPath, primaryPath,
                   created, sockFile, sigquit, ctxDone, now, delay, diedAt,
                   j9Vars, protoVars>>

\* the fallback trigger file under tmpPath; a failure returns at once
HSFallback ==
    /\ pc = "hs_fallback"
    /\ attachPath' = [dir |-> "tmp", proc |-> 0]
    /\ \/ /\ trigFiles' = trigFiles \cup {"tmp"}
          /\ created' = created \cup {"tmp"}
          /\ pc' = "hs_kill"
          /\ UNCHANGED perr
       \/ /\ perr' = Wrapf("failed to create attach trigger file",
                           Errorf("open"))
          /\ pc' = "sam_return"
          /\ UNCHANGED <<trigFiles, created>>
    /\ UNCHANGED <<cmd, args, in0, wire, coordVars, primaryPath, sockFile,
                   sigquit, ctxDone, now, delay, diedAt, j9Vars, resp, reply, data, stdout, defers,
                   relLog, conn, alive>>

\* the signal sent to the namespace PID
KillTargetNs(p, ns) == ns

\* syscall.Kill(pid, syscall.SIGQUIT): the host PID
KillTarget(p, ns) == p

\* f.Close(); defer os.Remove(attachPath); SIGQUIT to the host PID; the
\* loop's delay and deadline (now counts from the deadline's computation)
HSKill ==
    /\ pc = "hs_kill"
    /\ defers' = PushDefer(defers, "os.Remove(attachPath)")
    /\ \/ /\ alive
          /\ sigquit' = sigquit \cup {KillTarget(pid, nspid)}
          /\ delay' = PollDelayMs
          /\ now' = 0
          /\ diedAt' = 0
          /\ pc' = "hs_loop"
          /\ UNCHANGED perr
       \/ /\ perr' = Wrapf("failed to send SIGQUIT", Errorf("kill"))
          /\ pc' = "sam_return"
          /\ UNCHANGED <<sigquit, delay, now, diedAt>>
    /\ UNCHANGED <<cmd, args, in0, wire, coordVars, attachPath, primaryPath,
                   trigFiles, created, sockFile, ctxDone, j9Vars, resp, reply, data, stdout,
                   relLog, conn, alive>>

\* for time.Now().Before(deadline) { select { case <-ctx.Done(): ... } }
HSPollLoop ==
    /\ pc = "hs_loop"
    /\ IF ~(now < TimeoutMs)
       THEN /\ perr' = <<SocketTimeout>>
            /\ pc' = "sam_return"
       ELSE IF ctxDone
       THEN /\ perr' = <<Sentinel("context canceled")>>
            /\ pc' = "sam_return"
       ELSE /\ pc' = "hs_sock"
            /\ UNCHANGED perr
    /\ UNCHANGED <<cmd, args, in0, wire, coordVars, hsVars, j9Vars, resp, reply, data, stdout,
                   defers, relLog, conn, alive>>

\* if checkSocket(socketPath) { return nil }
HSPollSocket ==
    /\ pc = "hs_sock"
    /\ pc' = IF checkSocket(sockFile) THEN "sam_return" ELSE "hs_alive"
    /\ UNCHANGED <<cmd, args, in0, wire, coordVars, hsVars, j9Vars, protoVars>>

\* if !processIsAlive(pid) { return "process died" }
HSPollAlive ==
    /\ pc = "hs_alive"
    /\ IF ~processIsAlive(alive)
       THEN /\ perr' = <<ProcessDied>>
            /\ pc' = "sam_return"
       ELSE /\ pc' = "hs_sleep"
            /\ UNCHANGED perr
    /\ UNCHANGED <<cmd, args, in0, wire, coordVars, hsVars, j9Vars, resp, reply, data, stdout,
                   defers, relLog, conn, alive>>

\* time.Sleep(delay); delay += 20ms, capped at maxDelay
HSPollSleep ==
    /\ pc = "hs_sleep"
    /\ now' = now + delay
    /\ delay' = IF delay + PollStepMs > MaxDelayMs THEN MaxDelayMs
                ELSE delay + PollStepMs
    /\ pc' = "hs_loop"
    /\ UNCHANGED <<cmd, args, in0, wire, coordVars, attachPath, primaryPath,
                   trigFiles, created, sockFile, sigquit, ctxDone, diedAt,
                   j9Vars, protoVars>>

\* startAttachMechanism has returned to AttachHotSpot
SamReturned ==
    /\ pc = "sam_return"
    /\ defers = <<>>
    /\ IF perr = <<>>
       THEN /\ pc' = "hs_dial"
            /\ UNCHANGED perr
       ELSE /\ perr' = Wrapf("could not start attach mechanism", perr)
            /\ pc' = "proto_return"
    /\ UNCHANGED <<cmd, args, in0, wire, coordVars, hsVars, j9Vars, resp, reply, data, stdout,
                   defers, relLog, conn, alive>>

\* the error of a failed net.Dial, which wraps the dial error
CouldNotConnect == ErrNode("could not connect to socket")

\* net.Dial("unix", socketPath); defer conn.Close()
HSDial ==
    /\ pc = "hs_dial"
    /\ \/ /\ sockFile = "socket" /\ alive
          /\ conn' = "open"
          /\ defers' = PushDefer(defers, "conn.Close()")
          /\ pc' = "hs_write"
          /\ UNCHANGED perr
       \/ /\ perr' = <<CouldNotConnect>> \o Errorf("dial unix")
          /\ pc' = "proto_return"
          /\ UNCHANGED <<conn, defers>>
    /\ UNCHANGED <<cmd, args, in0, wire, coordVars, hsVars, j9Vars, resp, reply, data, stdout,
                   relLog, alive>>

\* writeCommand(conn, cmd, args)
HSWriteCommand ==
    /\ pc = "hs_write"
    /\ args' = ArgsAfter(cmd, args)
    /\ \/ /\ wire' = wire \o Frame(cmd, args)
          /\ pc' = "hs_read"
          /\ UNCHANGED perr
       \/ /\ perr' = Wrapf("error writing command", Errorf("write unix"))
          /\ pc' = "proto_return"
          /\ UNCHANGED wire
    /\ UNCHANGED <<cmd, in0, coordVars, hsVars, j9Vars, resp, reply, data, stdout, defers, relLog,
                   conn, alive>>

\* "return code: "
ReturnCodePrefix ==
    <<"r", "e", "t", "u", "r", "n", SP, "c", "o", "d", "e", ":", SP>>

\* the code of the first line: strconv.Atoi(TrimSpace(lines[0])), 0 when
\* that is not a number
FirstLineCode(d) == Atoi(TrimSpace(Line1(d)))

\* the second line as the load branch sees it
SecondLine(output) ==
    LET at == IndexLF(output, 1)
    IN IF at # 0 THEN TrimSpace(Line1(From(output, at))) ELSE <<>>

\* the load branch reading the JDK 8 form only
LoadCodeNoPrefix(code, output) ==
    LET secondLine == SecondLine(output)
    IN IF code = 0 /\ Len(output) >= 2
       THEN IF Len(secondLine) > 0
               /\ (IsDigit(secondLine[1]) \/ secondLine[1] = "-")
            THEN Atoi(secondLine)
            ELSE IF Len(secondLine) > 0 THEN -1
            ELSE code
       ELSE code

\* the load branch: if code == 0 && len(output) >= 2 { ... }
LoadCode(code, output) ==
    LET secondLine == SecondLine(output)
    IN IF code = 0 /\ Len(output) >= 2
       THEN IF HasPrefix(secondLine, ReturnCodePrefix)
            THEN Atoi(TrimSpace(From(secondLine, 13)))
            ELSE IF Len(secondLine) > 0
                    /\ (IsDigit(secondLine[1]) \/ secondLine[1] = "-")
            THEN Atoi(secondLine)
            ELSE IF Len(secondLine) > 0 THEN -1
            ELSE code
       ELSE code

\* n, err := conn.Read(buf): a Read of a stream returns the bytes that
\* have arrived, at least one of them, so buf[:n] is any non-empty prefix
\* of what the peer sends (the replies are shorter than the 8192 of buf)
FirstReads(output) == {SubSeq(output, 1, n) : n \in 1..Len(output)}

\* readResponse: the Code of the Response; the first line is taken from
\* the first Read (d) and the load branch looks at the whole reply
ResponseCode(c, d, output) ==
    IF c = load THEN LoadCode(FirstLineCode(d), output)
    ELSE FirstLineCode(d)

\* the Output of the Response being the first Read for every verb
ResponseOutputFirstRead(c, d, output) == d

\* readResponse: the Output of the Response; load returns the first Read
\* and what io.Copy appended to it, the other verbs string(data)
ResponseOutput(c, d, output) == IF c = load THEN output ELSE d

\* a Response whose code is not 0 returned as an error
ResponseErrorOnFailure(code) ==
    IF code # 0 THEN Errorf("agent load failed") ELSE <<>>

\* return &Response{Code: code, Output: output}, nil: the error returned
\* with a Response is nil whatever the code
ResponseError(code) == <<>>

\* readResponse(conn, cmd, args, printOutput): a read error, an EOF before
\* any byte, or a Response and no error, whatever the code
HSReadResponse ==
    /\ pc = "hs_read"
    /\ \/ /\ \E output \in {<<"0", LF>>, <<"1", LF>>, <<"0", LF, "x", LF>>} :
             \E d \in FirstReads(output) :
                /\ reply' = output
                /\ data' = d
                /\ resp' = <<[Code |-> ResponseCode(cmd, d, output),
                              Output |-> ResponseOutput(cmd, d, output)]>>
                /\ perr' = ResponseError(ResponseCode(cmd, d, output))
       \/ /\ perr' = Wrapf("error reading response",
                           Errorf("unexpected EOF reading response"))
          /\ UNCHANGED <<resp, reply, data>>
    /\ pc' = "proto_return"
    /\ UNCHANGED <<cmd, args, in0, wire, coordVars, hsVars, j9Vars, stdout,
                   defers, relLog, conn, alive>>

\* readResponse on its own: every verb and reply
\* a status line alone, with or without its line feed, or a status line,
\* a second line and what may follow it
InitReply ==
    /\ pc = "readResponse"
    /\ cmd \in {load, properties, jcmd}
    /\ args = <<>>
    /\ in0 = args
    /\ wire = <<>>
    /\ pid \in Pids
    /\ nspid = pid
    /\ sockFile = "socket"
    /\ reply \in
           LET
           ReplyFirstLines ==
               {<<"0">>,
                <<"1">>,
                <<SP, "0">>,
                <<"x">>,
                <<"1", "2">>,
                <<>>}
           ReplySecondLines ==
               {<<>>,
                <<"r", "e", "t", "u", "r", "n", SP, "c", "o", "d", "e", ":", SP, "0">>,
                <<"r", "e", "t", "u", "r", "n", SP, "c", "o", "d", "e", ":", SP, "7">>,
                <<"r", "e", "t", "u", "r", "n", SP, "c", "o", "d", "e", ":", SP, "-",
                  "3">>,
                <<"r", "e", "t", "u", "r", "n", SP, "c", "o", "d", "e", ":", SP, "x">>,
                <<"r", "e", "t", "u", "r", "n", SP, "c", "o", "d", "e", ":">>,
                <<"r", "e", "t", "u", "r", "n", SP, "c", "o", "d", "e", ":", SP, SP,
                  "1", "2", SP>>,
                <<"5">>,
                <<"-", "2">>,
                <<"-">>,
                <<"1", "2", "a", "b">>,
                <<SP, "3">>,
                <<"n", "o", SP, "a", "g", "e", "n", "t">>,
                <<SP>>,
                <<"-", "1", LF, "m", "o", "r", "e">>}
           IN
           ReplyFirstLines
               \cup {first \o <<LF>> \o second \o tail :
                       first \in ReplyFirstLines, second \in ReplySecondLines,
                       tail \in {<<>>, <<LF>>}}
    /\ InitRest

\* readResponse(conn, cmd, args, printOutput) on the reply the peer sends
ReadResponse ==
    /\ pc = "readResponse"
    /\ IF Len(reply) = 0
       THEN /\ perr' = Errorf("unexpected EOF reading response")
            /\ UNCHANGED <<resp, data, stdout>>
       ELSE \E d \in FirstReads(reply) :
            /\ data' = d
            /\ resp' = <<[Code |-> ResponseCode(cmd, d, reply),
                          Output |-> ResponseOutput(cmd, d, reply)]>>
            /\ perr' = ResponseError(ResponseCode(cmd, d, reply))
            \* if printOutput: "JVM response code = " and the reply, for
            \* load as read by io.Copy, for the other verbs Read by Read
            \* and then a line feed
            /\ stdout' =
                  IF clientOptions.PrintOutput
                  THEN stdout
                       \o <<"J", "V", "M", SP, "r", "e", "s", "p", "o", "n",
                            "s", "e", SP, "c", "o", "d", "e", SP, "=", SP>>
                       \o reply
                       \o (IF cmd = load THEN <<>> ELSE <<LF>>)
                  ELSE stdout
    /\ pc' = "readResponse_done"
    /\ UNCHANGED <<cmd, args, in0, wire, coordVars, hsVars, j9Vars, reply,
                   defers, relLog, conn, alive>>

NextReply == ReadResponse

SpecReply == InitReply /\ [][NextReply]_vars

----------------------------------------------------------------------------
(* The OpenJ9 protocol (openj9.go)                                         *)

\* the cap on notifier locks (256 in the source), scaled to the directories
maxNotifFiles == 2

\* lockNotificationFiles: of the numeric directories, those whose
\* attachNotificationSync lock was acquired, until the cap is reached
LockedNotifiers(dirs, lockable) ==
    LET \* the subsequence of 1..n whose members are in S, in directory
        \* order
        RECURSIVE InOrder(_, _)
        InOrder(n, S) ==
            IF n = 0 THEN <<>>
            ELSE IF n \in S THEN Append(InOrder(n - 1, S), n)
            ELSE InOrder(n - 1, S)
        Take(seq, k) == SubSeq(seq, 1, IF Len(seq) < k THEN Len(seq) ELSE k)
    IN Take(InOrder(dirs, lockable), maxNotifFiles)

\* authBuf := make([]byte, 35)
AuthBufLen == 35

\* the hexadecimal digits of n, lowercase, without padding
RECURSIVE HexDigits(_)
HexDigits(n) ==
    LET HexDigit(d) ==
            <<"0", "1", "2", "3", "4", "5", "6", "7", "8", "9",
              "a", "b", "c", "d", "e", "f">>[d + 1]
    IN IF n < 16 THEN <<HexDigit(n)>>
       ELSE Append(HexDigits(n \div 16), HexDigit(n % 16))

\* expected := fmt.Sprintf("ATTACH_CONNECTED %016x ", expectedKey), %016x
\* padding the digits with zeros on the left to 16
Expected(k) ==
    LET d == HexDigits(k)
        Hex16 == IF Len(d) >= 16 THEN d ELSE Repeat("0", 16 - Len(d)) \o d
        AttachConnected ==
            <<"A", "T", "T", "A", "C", "H", "_", "C", "O", "N", "N", "E",
              "C", "T", "E", "D", SP>>
    IN AttachConnected \o Hex16 \o <<SP>>

\* the error of a handshake that did not compare equal
UnexpectedJVMResponse == ErrNode("unexpected JVM response")

\* acquireLock(tmpPath, "", "_attachlock"); defer releaseLock(attachLock)
J9AcquireLock ==
    /\ pc = "j9_lock"
    /\ \/ /\ attachLock' = "held"
          /\ nAcq' = nAcq + 1
          /\ defers' = PushDefer(defers, "releaseLock(attachLock)")
          /\ pc' = "j9_listen"
          /\ UNCHANGED perr
       \/ /\ perr' = Wrapf("could not acquire attach lock", Errorf("flock"))
          /\ pc' = "proto_return"
          /\ UNCHANGED <<attachLock, nAcq, defers>>
    /\ UNCHANGED <<cmd, args, in0, wire, coordVars, hsVars, listener,
                   replyInfo, key, notifLocks, notifHeld, nRel, semLog, authBuf,
                   j9sent, resp, reply, data, stdout, relLog, conn, alive>>

\* createAttachSocket(); defer listener.Close()
J9Listen ==
    /\ pc = "j9_listen"
    /\ \/ /\ listener' = "open"
          /\ defers' = PushDefer(defers, "listener.Close()")
          /\ pc' = "j9_reply"
          /\ UNCHANGED perr
       \/ /\ perr' = Wrapf("failed to create attach socket", Errorf("listen tcp4"))
          /\ pc' = "proto_return"
          /\ UNCHANGED <<listener, defers>>
    /\ UNCHANGED <<cmd, args, in0, wire, coordVars, hsVars, attachLock,
                   replyInfo, key, notifLocks, notifHeld, nAcq, nRel, semLog,
                   authBuf, j9sent, resp, reply, data, stdout, relLog, conn, alive>>

\* randomKey(); writeReplyInfo (MkdirAll, then os.WriteFile: open with
\* O_CREATE|O_TRUNC, write, close); defer os.Remove(replyInfoPath) only
\* after it succeeded.  WriteFile fails either before the file exists or
\* after it created it (the write or the close failed).
J9WriteReplyInfo ==
    /\ pc = "j9_reply"
    /\ key' \in Keys
    /\ \/ /\ replyInfo' = TRUE
          /\ defers' = PushDefer(defers, "os.Remove(replyInfoPath)")
          /\ pc' = "j9_notif"
          /\ UNCHANGED perr
       \/ /\ \E fileCreated \in BOOLEAN : replyInfo' = fileCreated
          /\ perr' = Wrapf("could not write replyInfo", Errorf("write"))
          /\ pc' = "proto_return"
          /\ UNCHANGED defers
    /\ UNCHANGED <<cmd, args, in0, wire, coordVars, hsVars, attachLock,
                   listener, notifLocks, notifHeld, nAcq, nRel, semLog, authBuf,
                   j9sent, resp, reply, data, stdout, relLog, conn, alive>>

\* lockNotificationFiles(tmpPath); defer unlockNotificationFiles(...)
J9LockNotifiers ==
    /\ pc = "j9_notif"
    /\ \E dirs \in 0..MaxDirs : \E lockable \in SUBSET (1..dirs) :
          /\ notifLocks' = LockedNotifiers(dirs, lockable)
          /\ notifHeld' = {notifLocks'[i] : i \in 1..Len(notifLocks')}
          /\ nAcq' = nAcq + Len(notifLocks')
    /\ defers' = PushDefer(defers,
                    "unlockNotificationFiles(notifLocks, notifCount)")
    /\ pc' = "j9_sem"
    /\ UNCHANGED <<cmd, args, in0, wire, coordVars, hsVars, attachLock,
                   listener, replyInfo, key, nRel, semLog, authBuf, j9sent, perr,
                   resp, reply, data, stdout, relLog, conn, alive>>

\* notifySemaphore(tmpPath, 1, notifCount), a failure being only a warning;
\* defer notifySemaphore(tmpPath, -1, notifCount)
J9NotifySemaphore ==
    /\ pc = "j9_sem"
    /\ \E obtained \in BOOLEAN :
          semLog' = semLog \o SemOps(1, Len(notifLocks), obtained)
    /\ defers' = PushDefer(defers, "notifySemaphore(tmpPath, -1, notifCount)")
    /\ pc' = "j9_accept"
    /\ UNCHANGED <<cmd, args, in0, wire, coordVars, hsVars, attachLock,
                   listener, replyInfo, key, notifLocks, notifHeld, nAcq, nRel,
                   authBuf, j9sent, perr, resp, reply, data, stdout, relLog, conn, alive>>

\* acceptClient: listener.Accept() under the 5-second deadline
J9Accept ==
    /\ pc = "j9_accept"
    /\ \/ /\ conn' = "open"
          /\ pc' = "j9_auth"
          /\ UNCHANGED perr
       \/ /\ \E acceptErr \in {<<ErrNode("accept tcp"), ErrDeadlineExceeded>>,
                           Errorf("accept tcp: use of closed network connection")} :
                perr' = Wrapf("JVM did not connect",
                              Wrapf("JVM did not respond", acceptErr))
          /\ pc' = "proto_return"
          /\ UNCHANGED conn
    /\ UNCHANGED <<cmd, args, in0, wire, coordVars, hsVars, j9Vars, resp, reply, data, stdout,
                   defers, relLog, alive>>

\* acceptClient: conn.Read returned fewer bytes than authBuf still lacks;
\* the loop calls conn.Read again, on a connection without a deadline, and
\* stays there until the peer sends more or closes
J9ShortRead ==
    /\ pc = "j9_auth"
    /\ pc' = "j9_auth_read"
    /\ UNCHANGED <<cmd, args, in0, wire, coordVars, hsVars, j9Vars, protoVars>>

\* acceptClient: read until authBuf is full and compare string(authBuf)
\* with the expected message; on success AttachOpenJ9 defers conn.Close().
\* What a peer may have sent when 35 bytes were read: the message for some
\* key followed by the terminating NUL of the JVM's string or by one more
\* byte of any kind, or a message of another form.
J9Authenticate ==
    /\ pc \in {"j9_auth", "j9_auth_read"}
    /\ \/ /\ \E msg \in
                {Expected(k) \o <<b>> : k \in Keys \cup {0}, b \in {NUL, SP, "x"}}
                    \cup {Repeat("x", AuthBufLen)} :
             /\ authBuf' = msg
             /\ IF msg = Expected(key)
                THEN /\ defers' = PushDefer(defers, "conn.Close()")
                     /\ pc' = "j9_write"
                     /\ UNCHANGED <<conn, perr, relLog>>
                ELSE /\ conn' = "closed"
                     /\ relLog' = Append(relLog, "conn.Close()")
                     /\ perr' = Wrapf("JVM did not connect",
                                      <<UnexpectedJVMResponse>>)
                     /\ pc' = "proto_return"
                     /\ UNCHANGED defers
       \/ /\ conn' = "closed"
          /\ relLog' = Append(relLog, "conn.Close()")
          /\ perr' = Wrapf("JVM did not connect",
                           Wrapf("JVM connection was prematurely closed",
                                 Errorf("EOF")))
          /\ pc' = "proto_return"
          /\ UNCHANGED <<defers, authBuf>>
    /\ UNCHANGED <<cmd, args, in0, wire, coordVars, hsVars, attachLock,
                   listener, replyInfo, key, notifLocks, notifHeld, nAcq, nRel,
                   semLog, j9sent, resp, reply, data, stdout, alive>>

----------------------------------------------------------------------------
(* TranslateCommand (part_003) and the OpenJ9 command exchange             *)

AttachLoadAgent ==
    <<"A", "T", "T", "A", "C", "H", "_", "L", "O", "A", "D", "A", "G", "E",
      "N", "T">>
AttachLoadAgentPath ==
    <<"A", "T", "T", "A", "C", "H", "_", "L", "O", "A", "D", "A", "G", "E",
      "N", "T", "P", "A", "T", "H">>
AttachDiagnostics ==
    <<"A", "T", "T", "A", "C", "H", "_", "D", "I", "A", "G", "N", "O", "S",
      "T", "I", "C", "S", ":">>
AttachGetSystemProperties ==
    <<"A", "T", "T", "A", "C", "H", "_", "G", "E", "T", "S", "Y", "S", "T",
      "E", "M", "P", "R", "O", "P", "E", "R", "T", "I", "E", "S">>
AttachGetAgentProperties ==
    <<"A", "T", "T", "A", "C", "H", "_", "G", "E", "T", "A", "G", "E", "N",
      "T", "P", "R", "O", "P", "E", "R", "T", "I", "E", "S">>
StrTrue ==
    <<"t", "r", "u", "e">>

\* fmt.Sprintf("%s(%s,%s)", name, path, options)
LoadAgentCall(name, path, options) ==
    name \o <<"(">> \o path \o <<",">> \o options \o <<")">>

\* case "load"
TranslateLoad(a) ==
    IF Len(a) = 0 THEN LoadAgentCall(AttachLoadAgent, <<>>, <<>>)
    ELSE LET path == a[1]
             absolute == Len(a) > 1 /\ a[2] = StrTrue
             options == IF Len(a) > 2 THEN a[3] ELSE <<>>
         IN IF absolute THEN LoadAgentCall(AttachLoadAgentPath, path, options)
            ELSE LoadAgentCall(AttachLoadAgent, path, options)

\* the first argument, or the empty string
FirstArg(a) == IF Len(a) > 0 THEN a[1] ELSE <<>>

\* the switch with the diagnostics verbs left to the default case
TranslateCommandNoDiagnostics(c, a) ==
    IF c = load THEN TranslateLoad(a)
    ELSE IF c = properties THEN AttachGetSystemProperties
    ELSE IF c = agentProperties THEN AttachGetAgentProperties
    ELSE c

\* TranslateCommand(cmd, args): the switch over cmd
TranslateCommand(c, a) ==
    LET DiagHelp == <<"h", "e", "l", "p">>
        ThreadPrint ==
            <<"T", "h", "r", "e", "a", "d", ".", "p", "r", "i", "n", "t", ",">>
        DumpHeap == <<"D", "u", "m", "p", ".", "h", "e", "a", "p", ",">>
        GcClassHistogram ==
            <<"G", "C", ".", "c", "l", "a", "s", "s", "_", "h", "i", "s", "t",
              "o", "g", "r", "a", "m", ",">>
        DumpJava == <<"D", "u", "m", "p", ".", "j", "a", "v", "a", ",">>
    IN
    IF c = load THEN TranslateLoad(a)
    ELSE IF c = jcmd
    THEN (IF Len(a) = 0 THEN AttachDiagnostics \o DiagHelp
          ELSE AttachDiagnostics \o Join(a, ","))
    ELSE IF c = threaddump THEN AttachDiagnostics \o ThreadPrint \o FirstArg(a)
    ELSE IF c = dumpheap THEN AttachDiagnostics \o DumpHeap \o FirstArg(a)
    ELSE IF c = inspectheap
    THEN AttachDiagnostics \o GcClassHistogram \o FirstArg(a)
    ELSE IF c = datadump THEN AttachDiagnostics \o DumpJava \o FirstArg(a)
    ELSE IF c = properties THEN AttachGetSystemProperties
    ELSE IF c = agentProperties THEN AttachGetAgentProperties
    ELSE c

\* the longest argument list the translator is exercised with
MaxTranslateArgs == 3

\* translatedCmd := TranslateCommand(cmd, args); writeCommandOpenJ9 writes
\* it followed by a NUL
J9WriteCommand ==
    /\ pc = "j9_write"
    /\ \/ /\ j9sent' = Append(j9sent, TranslateCommand(cmd, args) \o <<NUL>>)
          /\ pc' = "j9_read"
          /\ UNCHANGED perr
       \/ /\ perr' = Wrapf("error writing command", Errorf("write tcp"))
          /\ pc' = "proto_return"
          /\ UNCHANGED j9sent
    /\ UNCHANGED <<cmd, args, in0, wire, coordVars, hsVars, attachLock,
                   listener, replyInfo, key, notifLocks, notifHeld, nAcq, nRel,
                   semLog, authBuf, resp, reply, data, stdout, defers, relLog, conn, alive>>

\* the backslash
BS == "\\"

\* printUnescaped(s): what fmt.Println receives.  strings.ReplaceAll
\* replaces the occurrences of old, found from left to right without
\* overlap, in one pass over its argument; "FF" and "TAB" stand for the
\* form feed and the tab.
printUnescaped(s) ==
    LET RECURSIVE ReplaceAll(_, _, _)
        ReplaceAll(t, old, new) ==
            IF t = <<>> THEN <<>>
            ELSE IF HasPrefix(t, old)
            THEN new \o ReplaceAll(From(t, Len(old)), old, new)
            ELSE <<t[1]>> \o ReplaceAll(Tail(t), old, new)
        s0 == IF Len(s) > 0 /\ s[Len(s)] = LF
              THEN SubSeq(s, 1, Len(s) - 1) ELSE s
        s1 == ReplaceAll(s0, <<BS, "f">>, <<"FF">>)
        s2 == ReplaceAll(s1, <<BS, "n">>, <<LF>>)
        s3 == ReplaceAll(s2, <<BS, "r">>, <<CR>>)
        s4 == ReplaceAll(s3, <<BS, "t">>, <<"TAB">>)
    IN ReplaceAll(s4, <<BS, BS>>, <<BS>>)

\* the marker of a diagnostic result: "openj9_diagnostics.string_result="
StringResult ==
    <<"o", "p", "e", "n", "j", "9", "_", "d", "i", "a", "g", "n", "o", "s",
      "t", "i", "c", "s", ".", "s", "t", "r", "i", "n", "g", "_", "r", "e",
      "s", "u", "l", "t", "=">>

\* readResponseOpenJ9: the code parsed from the reply to command tcmd
ResponseCodeOpenJ9(tcmd, response) ==
    LET \* fmt.Sscanf(s, "%d", &code): an optional sign and the digits that
        \* follow it are converted; without a digit code keeps its value
        Sscanf(str, code) ==
            LET RECURSIVE DigitPrefix(_)
                DigitPrefix(t) ==
                    IF Len(t) > 0 /\ IsDigit(t[1])
                    THEN <<t[1]>> \o DigitPrefix(Tail(t))
                    ELSE <<>>
                signed == Len(str) > 0 /\ str[1] \in {"-", "+"}
                digits == DigitPrefix(IF signed THEN Tail(str) ELSE str)
            IN IF Len(digits) = 0 THEN code
               ELSE IF signed /\ str[1] = "-" THEN 0 - DigitsVal(digits)
               ELSE DigitsVal(digits)
        AttachAck == <<"A", "T", "T", "A", "C", "H", "_", "A", "C", "K">>
        AttachErrAgentInit ==
            <<"A", "T", "T", "A", "C", "H", "_", "E", "R", "R", SP, "A", "g",
              "e", "n", "t", "I", "n", "i", "t", "i", "a", "l", "i", "z", "a",
              "t", "i", "o", "n", "E", "x", "c", "e", "p", "t", "i", "o", "n">>
    IN
    IF HasPrefix(tcmd, AttachLoadAgent)
    THEN IF HasPrefix(response, AttachAck) THEN 0
         ELSE IF HasPrefix(response, AttachErrAgentInit)
         THEN Sscanf(TrimSpace(From(response, 39)), -1)
         ELSE -1
    ELSE 0

\* readResponseOpenJ9 once the reply is read: the Response and what is
\* printed. A diagnostics command with printOutput set and the marker at
\* idx in the reply returns and prints result := response[idx+33:];
\* otherwise the whole reply is returned, and printed if printOutput is set
ReadResponseOpenJ9(tcmd, response, printOutput) ==
    LET code == ResponseCodeOpenJ9(tcmd, response)
        at == {i \in 0..(Len(response) - Len(StringResult)) :
                 HasPrefix(From(response, i), StringResult)}
        idx == IF at = {} THEN -1 ELSE CHOOSE i \in at : \A k \in at : i <= k
        res == From(response, idx + 33)
    IN IF /\ ~HasPrefix(tcmd, AttachLoadAgent)
          /\ HasPrefix(tcmd, AttachDiagnostics)
          /\ printOutput
          /\ idx # -1
       THEN [Code |-> code, Output |-> res,
             printed |-> printUnescaped(res) \o <<LF>>]
       ELSE [Code |-> code, Output |-> response,
             printed |-> IF printOutput THEN response \o <<LF>> ELSE <<>>]

\* what the JVM sends before it waits or closes: a reply and its NUL, with
\* or without bytes after it, or bytes without a NUL
J9Streams ==
    LET replies ==
        {<<"A", "T", "T", "A", "C", "H", "_", "A", "C", "K">>,
         <<"A", "T", "T", "A", "C", "H", "_", "E", "R", "R", SP, "A", "g", "e",
           "n", "t", "I", "n", "i", "t", "i", "a", "l", "i", "z", "a", "t",
           "i", "o", "n", "E", "x", "c", "e", "p", "t", "i", "o", "n", SP, "1">>,
         <<"A", "T", "T", "A", "C", "H", "_", "E", "R", "R", SP, "A", "g", "e",
           "n", "t", "I", "n", "i", "t", "i", "a", "l", "i", "z", "a", "t",
           "i", "o", "n", "E", "x", "c", "e", "p", "t", "i", "o", "n", "-",
           "3">>,
         <<"A", "T", "T", "A", "C", "H", "_", "E", "R", "R", SP, "A", "g", "e",
           "n", "t", "I", "n", "i", "t", "i", "a", "l", "i", "z", "a", "t",
           "i", "o", "n", "E", "x", "c", "e", "p", "t", "i", "o", "n">>,
         <<"A", "T", "T", "A", "C", "H", "_", "E", "R", "R", SP, "A", "g", "e",
           "n", "t", "I", "n", "i", "t", "i", "a", "l", "i", "z", "a", "t",
           "i", "o", "n", "E", "x", "c", "e", "p", "t", "i", "o", "n", SP, "1",
           "0", "2", SP, "i", "n", SP, "A", "g", "e", "n", "t", "_", "O", "n",
           "A", "t", "t", "a", "c", "h">>,
         <<"A", "T", "T", "A", "C", "H", "_", "E", "R", "R", SP, "I", "O", "E",
           "x", "c", "e", "p", "t", "i", "o", "n">>,
         <<"o", "p", "e", "n", "j", "9", "_", "d", "i", "a", "g", "n", "o",
           "s", "t", "i", "c", "s", ".", "s", "t", "r", "i", "n", "g", "_",
           "r", "e", "s", "u", "l", "t", "=", "o", "k">>,
         <<>>}
    IN
    {r \o <<NUL>> : r \in replies}
        \cup {<<"A", "T", "T", "A", "C", "H", "_", "A", "C", "K", NUL, "x", NUL>>,
              <<"A", "T", "T", "A", "C", "H", "_", "A", "C", "K", NUL, "x">>,
              <<"x">>, <<>>}

\* if resp.Code != 1
ShouldDetachOnAck(code) == code = 0

ShouldDetach(code) == code # 1

\* readResponseOpenJ9 reads until a Read ends on a NUL, or fails.  Reads
\* return the bytes in any chunks, so the loop can break at every offset
\* with buf[offset-1] == 0; no Read need end on a NUL when the last byte
\* sent is not one, and the Read after the last byte then returns n == 0
\* once the peer has closed.
J9ReadResponse ==
    /\ pc = "j9_read"
    /\ \/ /\ \E stream \in J9Streams :
             \E offset \in {k \in 1..Len(stream) : stream[k] = NUL} :
                LET response == SubSeq(stream, 1, offset - 1)
                    r == ReadResponseOpenJ9(TranslateCommand(cmd, args),
                                            response,
                                            clientOptions.PrintOutput)
                IN /\ reply' = stream
                   /\ data' = SubSeq(stream, 1, offset)
                   /\ resp' = <<[Code |-> r.Code, Output |-> r.Output]>>
                   /\ stdout' = stdout \o r.printed
          /\ pc' = "j9_detach"
          /\ UNCHANGED perr
       \/ /\ \E stream \in J9Streams :
                /\ IF stream = <<>> THEN TRUE ELSE stream[Len(stream)] # NUL
                /\ reply' = stream
          /\ perr' = Wrapf("error reading response",
                           Errorf("unexpected EOF reading response"))
          /\ pc' = "proto_return"
          /\ UNCHANGED <<resp, data, stdout>>
    /\ UNCHANGED <<cmd, args, in0, wire, coordVars, hsVars, attachLock,
                   listener, replyInfo, key, notifLocks, notifHeld, nAcq, nRel,
                   semLog, authBuf, j9sent, defers, relLog, conn, alive>>

\* if resp.Code != 1 { detach(conn) }; return resp, nil.  detach writes
\* ATTACH_DETACHED and its NUL with writeCommandOpenJ9 and reads the answer.
J9Detach ==
    /\ pc = "j9_detach"
    /\ j9sent' = IF ShouldDetach(resp[1].Code)
                 THEN Append(j9sent,
                        <<"A", "T", "T", "A", "C", "H", "_", "D", "E", "T",
                          "A", "C", "H", "E", "D", NUL>>)
                 ELSE j9sent
    /\ pc' = "proto_return"
    /\ UNCHANGED <<cmd, args, in0, wire, coordVars, hsVars, attachLock,
                   listener, replyInfo, key, notifLocks, notifHeld, nAcq, nRel,
                   semLog, authBuf, protoVars>>

\* the command exchange on its own: TranslateCommand, writeCommandOpenJ9
\* and readResponseOpenJ9 on every verb, argument list and reply
InitCommand ==
    /\ pc = "j9_write"
    /\ cmd \in {load, jcmd, threaddump, dumpheap, inspectheap, datadump,
                properties, agentProperties, setflag, printflag,
                <<"v", "e", "r", "s", "i", "o", "n">>}
    /\ args \in LET TranslateArgStrings == {<<>>, <<"a">>, StrTrue, <<"a", SP, "b">>}
                IN UNION {[1..n -> TranslateArgStrings] : n \in 0..MaxTranslateArgs}
    /\ in0 = args
    /\ wire = <<>>
    /\ pid \in Pids
    /\ nspid = pid
    /\ sockFile = "absent"
    /\ reply = <<>>
    /\ InitState("open", <<"conn.Close()">>, [PrintOutput |-> FALSE, Timeout |-> 0])

NextCommand == J9WriteCommand \/ J9ReadResponse \/ J9Detach \/ RunDefer

SpecCommand == InitCommand /\ [][NextCommand]_vars

\* the length of the payloads printUnescaped is applied to
MaxPayload == 3

\* the diagnostics branch of readResponseOpenJ9 with printOutput set, on a
\* reply that carries a string result
InitDiagnostics ==
    /\ pc = "j9_print"
    /\ cmd = jcmd
    /\ args = <<>>
    /\ in0 = args
    /\ wire = <<>>
    /\ pid \in Pids
    /\ nspid = pid
    /\ sockFile = "absent"
    /\ \E n \in 0..MaxPayload : \E payload \in [1..n -> {BS, "n", "t", LF}] :
          reply = StringResult \o payload
    /\ InitState("open", <<"conn.Close()">>, [PrintOutput |-> FALSE, Timeout |-> 0])

\* idx := strings.Index(response, "openj9_diagnostics.string_result="),
\* which is 0 on these replies; printUnescaped(response[idx+33:]);
\* return &Response{Code: code, Output: result}
J9PrintDiagnostics ==
    /\ pc = "j9_print"
    /\ LET res == From(reply, Len(StringResult))
       IN /\ stdout' = printUnescaped(res) \o <<LF>>
          /\ resp' = <<[Code |-> 0, Output |-> res]>>
    /\ pc' = "j9_detach"
    /\ UNCHANGED <<cmd, args, in0, wire, coordVars, hsVars, j9Vars, perr,
                   reply, data, defers, relLog, conn, alive>>

NextDiagnostics == J9PrintDiagnostics \/ J9Detach \/ RunDefer

SpecDiagnostics == InitDiagnostics /\ [][NextDiagnostics]_vars

\* readResponse and readResponseOpenJ9 with PrintOutput off and on: the
\* HotSpot replies are given, the OpenJ9 replies are those of J9Streams
InitOutput ==
    /\ pc \in {"readResponse", "j9_read"}
    /\ cmd \in {load, jcmd, properties}
    /\ args = <<>>
    /\ in0 = args
    /\ wire = <<>>
    /\ pid \in Pids
    /\ nspid = pid
    /\ sockFile = "absent"
    /\ reply \in IF pc = "j9_read" THEN {<<>>}
                 ELSE {<<"0", LF>>, <<"1", LF, "x", LF>>,
                       <<"0", LF, "x", LF>>, <<"0", LF, "7", LF>>}
    /\ \E printOutput \in BOOLEAN :
          InitState("open", <<"conn.Close()">>,
                    [PrintOutput |-> printOutput, Timeout |-> 0])

NextOutput == ReadResponse \/ J9ReadResponse \/ J9Detach \/ RunDefer

SpecOutput == InitOutput /\ [][NextOutput]_vars

----------------------------------------------------------------------------
(* The target process and the caller's context                             *)

CoordPcs == {"GetProcessInfo", "EnterNamespace", "Setgid", "Setuid",
             "TmpPath", "Detect"}
TriggerPcs == {"hs_open", "hs_owner", "hs_remove", "hs_fallback", "hs_kill",
               "hs_loop", "hs_sock", "hs_alive", "hs_sleep"}

\* the target process exits (or is killed); the OpenJ9 path never probes it
ProcessDies ==
    /\ pc \in CoordPcs \cup TriggerPcs
              \cup {"hs_checkSocket", "hs_dial", "hs_write", "hs_read"}
    /\ alive
    /\ alive' = FALSE
    /\ diedAt' = now
    /\ UNCHANGED <<pc, cmd, args, in0, wire, coordVars, attachPath,
                   primaryPath, trigFiles, created, sockFile, sigquit,
                   ctxDone, now, delay, j9Vars, perr, resp, reply, data, stdout, defers, relLog,
                   conn>>

\* the JVM answers SIGQUIT: it finds a trigger file and opens its socket
JvmCreatesSocket ==
    /\ pc \in TriggerPcs
    /\ alive /\ pid \in sigquit /\ trigFiles # {} /\ sockFile # "socket"
    /\ sockFile' = "socket"
    /\ UNCHANGED <<pc, cmd, args, in0, wire, coordVars, attachPath,
                   primaryPath, trigFiles, created, sigquit, ctxDone, now,
                   delay, diedAt, j9Vars, protoVars>>

\* the caller cancels the context; only the poll loop looks at it
Cancel ==
    /\ pc \in TriggerPcs
    /\ ~ctxDone
    /\ ctxDone' = TRUE
    /\ UNCHANGED <<pc, cmd, args, in0, wire, coordVars, attachPath,
                   primaryPath, trigFiles, created, sockFile, sigquit, now,
                   delay, diedAt, j9Vars, protoVars>>

----------------------------------------------------------------------------
(* The attach specification: one AttachWithContext call                    *)

Init ==
    /\ pc = "GetProcessInfo"
    /\ \E call \in {<<load, <<<<"a">>, <<"b">>, <<"a">>, <<"b">>>> >>} :
          /\ cmd = call[1]
          /\ args = call[2]
          /\ in0 = call[2]
    /\ wire = <<>>
    /\ pid \in Pids
    /\ nspid \in NsPids
    /\ sockFile \in {"absent", "file", "socket"}
    /\ reply = <<>>
    /\ InitRest

Next ==
    \/ GetProcessInfo
    \/ EnterNamespaces
    \/ Setgid
    \/ Setuid
    \/ DetermineTmpPath
    \/ DetectAndDispatch
    \/ HSCheckSocket
    \/ HSOpenPrimary
    \/ HSCheckOwnership
    \/ HSRemovePrimary
    \/ HSFallback
    \/ HSKill
    \/ HSPollLoop
    \/ HSPollSocket
    \/ HSPollAlive
    \/ HSPollSleep
    \/ SamReturned
    \/ HSDial
    \/ HSWriteCommand
    \/ HSReadResponse
    \/ J9AcquireLock
    \/ J9Listen
    \/ J9WriteReplyInfo
    \/ J9LockNotifiers
    \/ J9NotifySemaphore
    \/ J9Accept
    \/ J9ShortRead
    \/ J9Authenticate
    \/ RunDefer
    \/ ProtoReturned
    \/ WrapResult
    \/ ProcessDies
    \/ JvmCreatesSocket
    \/ Cancel

Spec == Init /\ [][Next]_vars

\* AttachHotSpot's trigger phase for clients built with different Timeout
\* options, on a target whose socket is not there yet
InitTimeout ==
    /\ pc = "hs_checkSocket"
    /\ cmd = jcmd
    /\ args = <<>>
    /\ in0 = args
    /\ wire = <<>>
    /\ pid \in Pids
    /\ nspid = pid
    /\ sockFile = "absent"
    /\ reply = <<>>
    /\ \E t \in {0, 1000, 10000} : InitState("none", <<>>, [PrintOutput |-> FALSE, Timeout |-> t])

NextTimeout ==
    \/ HSCheckSocket
    \/ HSOpenPrimary
    \/ HSCheckOwnership
    \/ HSRemovePrimary
    \/ HSFallback
    \/ HSKill
    \/ HSPollLoop
    \/ HSPollSocket
    \/ HSPollAlive
    \/ HSPollSleep
    \/ SamReturned
    \/ RunDefer
    \/ ProcessDies
    \/ JvmCreatesSocket
    \/ Cancel

SpecTimeout == InitTimeout /\ [][NextTimeout]_vars

\* the attach keeps running: the scheduler runs the goroutine whenever it
\* has a step that does not wait for the peer
SpecLive == Init /\ [][Next]_vars /\ WF_vars(Next /\ pc # "j9_auth_read")

----------------------------------------------------------------------------
(* Concurrent AttachOpenJ9 calls on one tmpPath (openj9.go:26-62, 96-122)  *)

\* syscall.Flock(fd, LOCK_EX) returns only once no other open file
\* description holds the lock of the file
FlockShared(holder) == TRUE

FlockEx(holder) == holder = NoClient

\* the operation a client performs, and whether its flock of _attachlock
\* is in force while it does
Op(c, name) == [who |-> c, op |-> name, held |-> kflock[AttachLockFile] = c]

\* a client calls AttachOpenJ9 for the JVM whose namespace pid is n
ClientCall ==
    /\ \E c \in Clients, n \in NsPids :
          /\ clients[c].at = "none"
          /\ clients' = [clients EXCEPT ![c].at = "lock", ![c].nspid = n]
    /\ UNCHANGED <<pc, cmd, args, in0, wire, pid, clientOptions, nspid, egid, euid, nsIdx,
                   result, mntChanged, tmpPath, tmpIn, cause, jvmType, err,
                   thrVars, kflock, replyInfos, lastOp, hsVars, j9Vars,
                   protoVars>>

\* AttachOpenJ9 going on without the flock of _attachlock
ClientProceedUnlocked ==
    /\ \E c \in Clients :
          /\ clients[c].at = "lock"
          /\ clients' = [clients EXCEPT ![c].at = "listen"]
    /\ UNCHANGED <<pc, cmd, args, in0, wire, pid, clientOptions, nspid, egid, euid, nsIdx,
                   result, mntChanged, tmpPath, tmpIn, cause, jvmType, err,
                   thrVars, kflock, replyInfos, lastOp, hsVars, j9Vars,
                   protoVars>>

\* acquireLock(tmpPath, "", "_attachlock"): OpenFile or Flock fails and
\* AttachOpenJ9 returns, or Flock blocks until the lock is free;
\* defer releaseLock(attachLock)
ClientAcquireLock ==
    /\ \E c \in Clients :
          /\ clients[c].at = "lock"
          /\ \/ /\ FlockEx(kflock[AttachLockFile])
                /\ kflock' = [kflock EXCEPT ![AttachLockFile] = c]
                /\ clients' = [clients EXCEPT
                      ![c].at = "listen",
                      ![c].defers = PushDefer(@, "releaseLock(attachLock)")]
             \/ /\ clients' = [clients EXCEPT ![c].at = "return"]
                /\ UNCHANGED kflock
    /\ UNCHANGED <<pc, cmd, args, in0, wire, pid, clientOptions, nspid, egid, euid, nsIdx,
                   result, mntChanged, tmpPath, tmpIn, cause, jvmType, err,
                   thrVars, replyInfos, lastOp, hsVars, j9Vars, protoVars>>

\* createAttachSocket(); defer listener.Close()
ClientListen ==
    /\ \E c \in Clients :
          /\ clients[c].at = "listen"
          /\ \/ clients' = [clients EXCEPT
                   ![c].at = "reply",
                   ![c].defers = PushDefer(@, "listener.Close()")]
             \/ clients' = [clients EXCEPT ![c].at = "return"]
    /\ UNCHANGED <<pc, cmd, args, in0, wire, pid, clientOptions, nspid, egid, euid, nsIdx,
                   result, mntChanged, tmpPath, tmpIn, cause, jvmType, err,
                   thrVars, kflock, replyInfos, lastOp, hsVars, j9Vars,
                   protoVars>>

\* writeReplyInfo(replyInfoPath, port, key); defer os.Remove(replyInfoPath)
\* only after it succeeded; a failure leaves the file of the client there
\* or leaves what was there
ClientWriteReplyInfo ==
    /\ \E c \in Clients :
          /\ clients[c].at = "reply"
          /\ \/ /\ replyInfos' = [replyInfos EXCEPT ![clients[c].nspid] = c]
                /\ clients' = [clients EXCEPT
                      ![c].at = "notif",
                      ![c].defers = PushDefer(@, "os.Remove(replyInfoPath)")]
             \/ /\ \E fileCreated \in BOOLEAN :
                      replyInfos' = IF fileCreated
                          THEN [replyInfos EXCEPT ![clients[c].nspid] = c]
                          ELSE replyInfos
                /\ clients' = [clients EXCEPT ![c].at = "return"]
          /\ lastOp' = Op(c, "write replyInfo")
    /\ UNCHANGED <<pc, cmd, args, in0, wire, pid, clientOptions, nspid, egid, euid, nsIdx,
                   result, mntChanged, tmpPath, tmpIn, cause, jvmType, err,
                   thrVars, kflock, hsVars, j9Vars, protoVars>>

\* lockNotificationFiles(tmpPath): acquireLock on the attachNotificationSync
\* of the numbered directories, each Flock returning once that file is
\* free; defer unlockNotificationFiles(notifLocks, notifCount)
ClientLockNotifiers ==
    /\ \E c \in Clients, dirs \in 0..MaxDirs :
       \E lockable \in SUBSET (1..dirs) :
          LET locks == LockedNotifiers(dirs, lockable) IN
          /\ clients[c].at = "notif"
          /\ \A i \in 1..Len(locks) : FlockEx(kflock[locks[i]])
          /\ kflock' = [f \in LockFiles |->
                          IF \E i \in 1..Len(locks) : locks[i] = f
                          THEN c ELSE kflock[f]]
          /\ clients' = [clients EXCEPT
                ![c].at = "sem",
                ![c].notifLocks = locks,
                ![c].defers = PushDefer(@,
                    "unlockNotificationFiles(notifLocks, notifCount)")]
          /\ lastOp' = Op(c, "lock notifiers")
    /\ UNCHANGED <<pc, cmd, args, in0, wire, pid, clientOptions, nspid, egid, euid, nsIdx,
                   result, mntChanged, tmpPath, tmpIn, cause, jvmType, err,
                   thrVars, replyInfos, hsVars, j9Vars, protoVars>>

\* notifySemaphore(tmpPath, 1, notifCount);
\* defer notifySemaphore(tmpPath, -1, notifCount)
ClientNotifySemaphore ==
    /\ \E c \in Clients, obtained \in BOOLEAN :
          /\ clients[c].at = "sem"
          /\ clients' = [clients EXCEPT
                ![c].at = "accept",
                ![c].defers = PushDefer(@,
                    "notifySemaphore(tmpPath, -1, notifCount)")]
          /\ lastOp' = IF SemOps(1, Len(clients[c].notifLocks), obtained) # <<>>
                       THEN Op(c, "semop")
                       ELSE lastOp
    /\ UNCHANGED <<pc, cmd, args, in0, wire, pid, clientOptions, nspid, egid, euid, nsIdx,
                   result, mntChanged, tmpPath, tmpIn, cause, jvmType, err,
                   thrVars, kflock, replyInfos, hsVars, j9Vars, protoVars>>

\* acceptClient and what follows it touch only the connection: the client
\* goes on to return
ClientAccept ==
    /\ \E c \in Clients :
          /\ clients[c].at = "accept"
          /\ clients' = [clients EXCEPT ![c].at = "return"]
    /\ UNCHANGED <<pc, cmd, args, in0, wire, pid, clientOptions, nspid, egid, euid, nsIdx,
                   result, mntChanged, tmpPath, tmpIn, cause, jvmType, err,
                   thrVars, kflock, replyInfos, lastOp, hsVars, j9Vars,
                   protoVars>>

\* a returning client runs its deferred call on top of the stack
ClientRunDefer ==
    /\ \E c \in Clients, obtained \in BOOLEAN :
          LET stack == clients[c].defers
              call == stack[Len(stack)]
              locks == clients[c].notifLocks
          IN
          /\ clients[c].at = "return"
          /\ stack # <<>>
          /\ clients' = [clients EXCEPT
                ![c].defers = SubSeq(stack, 1, Len(stack) - 1)]
          /\ CASE call = "releaseLock(attachLock)" ->
                    /\ kflock' = [kflock EXCEPT ![AttachLockFile] = NoClient]
                    /\ UNCHANGED <<replyInfos, lastOp>>
               [] call = "listener.Close()" ->
                    UNCHANGED <<kflock, replyInfos, lastOp>>
               [] call = "os.Remove(replyInfoPath)" ->
                    /\ replyInfos' =
                          [replyInfos EXCEPT ![clients[c].nspid] = NoClient]
                    /\ lastOp' = Op(c, "remove replyInfo")
                    /\ UNCHANGED kflock
               [] call = "unlockNotificationFiles(notifLocks, notifCount)" ->
                    /\ kflock' = [f \in LockFiles |->
                                    IF \E i \in 1..Len(locks) : locks[i] = f
                                    THEN NoClient ELSE kflock[f]]
                    /\ lastOp' = Op(c, "unlock notifiers")
                    /\ UNCHANGED replyInfos
               [] call = "notifySemaphore(tmpPath, -1, notifCount)" ->
                    /\ lastOp' = IF SemOps(-1, Len(locks), obtained) # <<>>
                                 THEN Op(c, "semop")
                                 ELSE lastOp
                    /\ UNCHANGED <<kflock, replyInfos>>
    /\ UNCHANGED <<pc, cmd, args, in0, wire, pid, clientOptions, nspid, egid, euid, nsIdx,
                   result, mntChanged, tmpPath, tmpIn, cause, jvmType, err,
                   thrVars, hsVars, j9Vars, protoVars>>

\* the deferred calls have run: AttachOpenJ9 has returned
ClientReturned ==
    /\ \E c \in Clients :
          /\ clients[c].at = "return"
          /\ clients[c].defers = <<>>
          /\ clients' = [clients EXCEPT
                ![c] = [at |-> "returned", nspid |-> 0, defers |-> <<>>,
                        notifLocks |-> <<>>, want |-> AttachLockFile]]
    /\ UNCHANGED <<pc, cmd, args, in0, wire, pid, clientOptions, nspid, egid, euid, nsIdx,
                   result, mntChanged, tmpPath, tmpIn, cause, jvmType, err,
                   thrVars, kflock, replyInfos, lastOp, hsVars, j9Vars,
                   protoVars>>

NextClients ==
    \/ ClientCall
    \/ ClientAcquireLock
    \/ ClientListen
    \/ ClientWriteReplyInfo
    \/ ClientLockNotifiers
    \/ ClientNotifySemaphore
    \/ ClientAccept
    \/ ClientRunDefer
    \/ ClientReturned

\* no attach is running in the coordinator of this process; the clients
\* have not called yet
InitClients ==
    /\ pc = "clients"
    /\ cmd = load
    /\ args = <<>>
    /\ in0 = args
    /\ wire = <<>>
    /\ pid \in Pids
    /\ nspid = pid
    /\ sockFile = "absent"
    /\ reply = <<>>
    /\ InitRest

SpecClients == InitClients /\ [][NextClients]_vars

\* lockNotificationFiles one entry at a time. The loop reaches the next
\* numbered directory that Readdirnames listed, in whatever order it listed
\* them, and calls acquireLock(tmpPath, entry, "attachNotificationSync");
\* an entry that is skipped is one the loop never reaches here
ClientRequestNotifier ==
    /\ \E c \in Clients, f \in LockFiles \ {AttachLockFile} :
          /\ clients[c].at = "notif"
          /\ Len(clients[c].notifLocks) < maxNotifFiles
          /\ \A i \in 1..Len(clients[c].notifLocks) :
                clients[c].notifLocks[i] # f
          /\ clients' = [clients EXCEPT ![c].at = "flock", ![c].want = f]
    /\ UNCHANGED <<pc, cmd, args, in0, wire, pid, clientOptions, nspid, egid, euid, nsIdx,
                   result, mntChanged, tmpPath, tmpIn, cause, jvmType, err,
                   thrVars, kflock, replyInfos, lastOp, hsVars, j9Vars,
                   protoVars>>

\* syscall.Flock(fd, LOCK_EX) of the entry returns once the file is free:
\* locks = append(locks, lock)
ClientFlockNotifier ==
    /\ \E c \in Clients :
          /\ clients[c].at = "flock"
          /\ FlockEx(kflock[clients[c].want])
          /\ kflock' = [kflock EXCEPT ![clients[c].want] = c]
          /\ clients' = [clients EXCEPT
                ![c].at = "notif",
                ![c].notifLocks = Append(@, clients[c].want),
                ![c].want = AttachLockFile]
    /\ UNCHANGED <<pc, cmd, args, in0, wire, pid, clientOptions, nspid, egid, euid, nsIdx,
                   result, mntChanged, tmpPath, tmpIn, cause, jvmType, err,
                   thrVars, replyInfos, lastOp, hsVars, j9Vars, protoVars>>

\* the entries are exhausted or len(locks) >= maxNotifFiles:
\* lockNotificationFiles returns;
\* defer unlockNotificationFiles(notifLocks, notifCount)
ClientNotifiersLocked ==
    /\ \E c \in Clients :
          /\ clients[c].at = "notif"
          /\ clients' = [clients EXCEPT
                ![c].at = "sem",
                ![c].defers = PushDefer(@,
                    "unlockNotificationFiles(notifLocks, notifCount)")]
          /\ lastOp' = Op(c, "lock notifiers")
    /\ UNCHANGED <<pc, cmd, args, in0, wire, pid, clientOptions, nspid, egid, euid, nsIdx,
                   result, mntChanged, tmpPath, tmpIn, cause, jvmType, err,
                   thrVars, kflock, replyInfos, hsVars, j9Vars, protoVars>>

\* the concurrent clients with every flock a step of its own
NextLocks ==
    \/ ClientCall
    \/ ClientAcquireLock
    \/ ClientListen
    \/ ClientWriteReplyInfo
    \/ ClientRequestNotifier
    \/ ClientFlockNotifier
    \/ ClientNotifiersLocked
    \/ ClientNotifySemaphore
    \/ ClientAccept
    \/ ClientRunDefer
    \/ ClientReturned

SpecLocks == InitClients /\ [][NextLocks]_vars

\* the coordinator of one attach in a process that runs another goroutine
NextThreads ==
    \/ GetProcessInfo
    \/ EnterNamespacesOnThread
    \/ Setgid
    \/ Setuid
    \/ DetermineTmpPathOnThread
    \/ DetectAndDispatchOnThread
    \/ Reschedule
    \/ OtherWork

SpecThreads == Init /\ [][NextThreads]_vars

\* protocol.AttachOpenJ9 or protocol.AttachHotSpot has run and returned a
\* response or an error; neither touches the credentials, the namespaces
\* or the threads
ProtocolReturns ==
    /\ pc \in {"j9_lock", "hs_checkSocket"}
    /\ \/ /\ resp' = <<[Code |-> 0, Output |-> <<>>]>>
          /\ UNCHANGED perr
       \/ /\ perr' = <<CouldNotConnect>> \o Errorf("dial unix")
          /\ UNCHANGED resp
    /\ pc' = "Wrap"
    /\ UNCHANGED <<cmd, args, in0, wire, coordVars, hsVars, j9Vars, reply,
                   data, stdout, defers, relLog, conn, alive>>

\* the caller calls Attach once more in the same process: the call starts
\* with signal.Ignore(syscall.SIGPIPE), with what the earlier calls left,
\* nothing being restored before, and on the thread the scheduler has the
\* goroutine on by then: the one of the last call or one no goroutine is
\* running on.  Two calls are followed.
AttachAgain ==
    /\ pc = "done"
    /\ ran.who = "none"
    /\ pc' = "GetProcessInfo"
    /\ \E t \in Threads :
          /\ t = thr["attach"] \/ \A h \in Goroutines : thr[h] # t
          /\ thr' = [thr EXCEPT !["attach"] = t]
          /\ ran' = [who |-> "attach", ns |-> tns[t], gid |-> egid,
                     uid |-> euid]
    /\ nsIdx' = 0
    /\ result' = 0
    /\ mntChanged' = 0
    /\ tmpPath' = ""
    /\ tmpIn' = [opt |-> "", env |-> "", platformOK |-> FALSE]
    /\ cause' = <<>>
    /\ jvmType' = "Unknown"
    /\ err' = <<>>
    /\ perr' = <<>>
    /\ resp' = <<>>
    /\ UNCHANGED <<cmd, args, in0, wire, pid, clientOptions, nspid, egid,
                   euid, tns, entered, clientVars, hsVars, j9Vars, reply,
                   data, stdout, defers, relLog, conn, alive>>

\* Attach calls made one after the other by one goroutine of a process
InitCalls ==
    /\ pc = "GetProcessInfo"
    /\ cmd = jcmd
    /\ args = <<>>
    /\ in0 = args
    /\ wire = <<>>
    /\ pid \in Pids
    /\ nspid = pid
    /\ sockFile = "absent"
    /\ reply = <<>>
    /\ InitRest

NextCalls ==
    \/ GetProcessInfo
    \/ EnterNamespacesOnThread
    \/ Setgid
    \/ Setuid
    \/ DetermineTmpPath
    \/ DetectAndDispatch
    \/ ProtocolReturns
    \/ WrapResult
    \/ AttachAgain

SpecCalls == InitCalls /\ [][NextCalls]_vars

----------------------------------------------------------------------------
(* Claims about request framing (checked under SpecFrame)                  *)

\* the verb's three argument slots as they are recovered from the wire
Slot(i) == Fields(wire)[2 + i]

\* C1: for a verb other than jcmd with more than three arguments, slot 3 of
\* the emitted request is the third argument followed by all later
\* arguments joined with single spaces, so no argument is missing.
C1_Slot3CarriesLaterArgs ==
    (pc = "frame_done" /\ cmd # jcmd /\ Len(in0) > 3)
        => /\ Len(Fields(wire)) = 5
           /\ Slot(3) = Join(SubSeq(in0, 3, Len(in0)), SP)

\* C2: for every verb and argument list the request has exactly five NUL
\* bytes and splits on NUL into "1", the verb and exactly three slots, the
\* slots past the supplied arguments being empty.
C2_FiveNulThreeSlots ==
    pc = "frame_done"
        => /\ CountNul(wire) = 5
           /\ wire[Len(wire)] = NUL
           /\ Len(Fields(wire)) = 5
           /\ Fields(wire)[1] = Str_1
           /\ Fields(wire)[2] = cmd
           /\ \A i \in 1..3 : i > Len(in0) => Slot(i) = <<>>

C2_Witness ==
    /\ pc = "frame_done"
    /\ Len(in0) = 1
    /\ in0[1] # <<>>
    /\ CountNul(wire) = 5

\* C3: for verb jcmd with more than one argument, slot 1 is the first
\* argument unchanged, slot 2 is the remaining arguments joined with single
\* spaces and slot 3 is empty; with zero or one argument the arguments
\* occupy the slots directly.
C3_JcmdMerge ==
    (pc = "frame_done" /\ cmd = jcmd)
        => /\ Len(Fields(wire)) = 5
           /\ Len(in0) > 1 =>
                /\ Slot(1) = in0[1]
                /\ Slot(2) = Join(Tail(in0), SP)
                /\ Slot(3) = <<>>
           /\ Len(in0) <= 1 =>
                \A i \in 1..3 :
                    Slot(i) = IF i <= Len(in0) THEN in0[i] ELSE <<>>

C3_Witness ==
    /\ pc = "frame_done"
    /\ cmd = jcmd
    /\ Len(in0) = 3
    /\ in0[2] # <<>>
    /\ in0[3] # <<>>
    /\ Slot(2) = in0[2] \o <<SP>> \o in0[3]

----------------------------------------------------------------------------
(* Claims about the OpenJ9 rendezvous (checked under Spec)                 *)

\* AttachOpenJ9 has returned to the coordinator
J9Returned == jvmType = "OpenJ9" /\ pc \in {"Wrap", "done"}

\* N, the number of notifier locks held by lockNotificationFiles
N == Len(notifLocks)

\* C4: whatever step of AttachOpenJ9 failed, when it returns everything it
\* acquired has been released: the global lock, the listener, replyInfo,
\* every notifier lock and any accepted connection, and as many locks were
\* released as acquired.
C4_AllReleasedOnReturn ==
    J9Returned
        => /\ attachLock # "held"
           /\ listener # "open"
           /\ ~replyInfo
           /\ notifHeld = {}
           /\ conn # "open"
           /\ nRel = nAcq

\* C5 as claimed: an attach that accepted a connection releases in the
\* order N semaphore operations of -1, notifier unlocks, connection close,
\* listener close, replyInfo deletion, global lock release.
C5_ClaimedOrder ==
    (J9Returned /\ conn = "closed")
        => relLog = Repeat("semop(-1)", N)
                    \o Repeat("releaseLock(notifier)", N)
                    \o <<"conn.Close()", "listener.Close()",
                         "os.Remove(replyInfoPath)", "releaseLock(attachLock)">>

\* C5 amended: an attach that accepted a connection releases in the order
\* connection close, the semaphore operations of -1 (N, or none when the
\* semaphore could not be obtained), notifier unlocks, replyInfo deletion,
\* listener close, global lock release.
C5_ReverseOfAcquisition ==
    (J9Returned /\ conn = "closed")
        => \E m \in {0, N} :
              relLog = <<"conn.Close()">>
                       \o Repeat("semop(-1)", m)
                       \o Repeat("releaseLock(notifier)", N)
                       \o <<"os.Remove(replyInfoPath)", "listener.Close()",
                            "releaseLock(attachLock)">>

C5_Witness ==
    /\ pc = "done"
    /\ jvmType = "OpenJ9"
    /\ conn = "closed"
    /\ N = 2
    /\ Len(relLog) = 8

\* AttachOpenJ9 has returned after it went through the semaphore wake: no
\* step between the deferred deletion of replyInfo and the wake can fail
J9Woke ==
    J9Returned /\ \E i \in 1..Len(relLog) : relLog[i] = "os.Remove(replyInfoPath)"

\* C6 as claimed: an OpenJ9 attach that went through the wake performs N
\* operations of +1 and afterwards N operations of -1, N being the number
\* of notifier locks held.
C6_PlusNThenMinusN ==
    J9Woke
        => semLog = Repeat(1, N) \o Repeat(-1, N)

\* C6 amended: an OpenJ9 attach that went through the wake calls the
\* semaphore operation with +1 and afterwards with -1, for the same N; each
\* call performs N operations, or none when its key or semaphore could not
\* be obtained, and no -1 operation precedes a +1 operation.
C6_SameCountBothWays ==
    J9Woke
        => \E p \in {0, N} : \E m \in {0, N} :
              semLog = Repeat(1, p) \o Repeat(-1, m)

C6_Witness ==
    /\ pc = "done"
    /\ J9Woke
    /\ N = 2
    /\ semLog = <<1, 1, -1, -1>>

----------------------------------------------------------------------------
(* Claims about the coordinator and the HotSpot trigger phase (Spec)       *)

\* the trigger phase is over (or was skipped)
AfterTrigger == pc \in {"hs_dial", "hs_write", "hs_read", "proto_return",
                        "Wrap", "done"}

\* C7: when the poll loop's probe finds the process gone, the trigger phase
\* returns the process-died error at that iteration: before the deadline,
\* within one polling interval of the death, and no connect or command
\* write follows.
C7_DeathEndsPolling ==
    /\ [][(pc = "hs_alive" /\ ~alive /\ pc' # pc)
            => /\ pc' = "sam_return"
               /\ perr' = <<ProcessDied>>
               /\ now' < TimeoutMs
               /\ now' - diedAt' <= delay']_vars
    /\ [](ErrorsIs(perr, ProcessDied)
            => /\ pc \in {"sam_return", "proto_return", "Wrap", "done"}
               /\ conn = "none"
               /\ wire = <<>>)

C7_Witness ==
    /\ pc = "done"
    /\ ErrorsIs(err, ProcessDied)
    /\ now > 0
    /\ diedAt < now

\* C8: the primary trigger path is /proc/<nspid>/cwd/.attach_pid<nspid>
\* when EnterNamespace(pid, mnt) reported Switched (1), and
\* /proc/<pid>/cwd/.attach_pid<nspid> when it reported NoChange (0) or
\* failed (-1); with pid # nspid the nspid path is used iff Switched.
C8_NamespaceGating ==
    primaryPath # NoPath
        => /\ primaryPath = ProcCwdPath(IF result = 1 THEN nspid ELSE pid)
           /\ pid # nspid => (primaryPath = ProcCwdPath(nspid) <=> result = 1)

C8_Witness ==
    /\ primaryPath = ProcCwdPath(nspid)
    /\ pid # nspid
    /\ result = 1
    /\ mntChanged = 1

\* C9: once the trigger phase is left, no trigger file created by this
\* attach remains, at the primary path or at the fallback path.
C9_NoTriggerFileRemains ==
    (AfterTrigger /\ created # {}) => trigFiles \cap created = {}

\* C10: when the HotSpot socket did not appear in time, or the OpenJ9
\* accept deadline fired, the error Attach returns is ErrTimeout.
C10_TimeoutIsErrTimeout ==
    (pc = "done" /\ (ErrorsIs(err, SocketTimeout) \/ ErrorsIs(err, ErrDeadlineExceeded)))
        => ErrorsIs(err, ErrTimeout)

----------------------------------------------------------------------------
(* Claims about error classification and the OpenJ9 handshake (Spec)       *)

\* C11: when the OpenJ9 handshake does not compare equal, or the HotSpot
\* socket connect fails, the error Attach returns is ErrConnectionFailed.
C11_ConnectionFailedKind ==
    (pc = "done" /\ (ErrorsIs(err, UnexpectedJVMResponse)
                        \/ ErrorsIs(err, CouldNotConnect)))
        => ErrorsIs(err, ErrConnectionFailed)

\* the bytes read begin with the expected message for the generated key
CarriesKey == SubSeq(authBuf, 1, Len(Expected(key))) = Expected(key)

----------------------------------------------------------------------------
(* Claims about the command translator (checked under SpecCommand)         *)

\* the command written to the connection, without its NUL
Translated == SubSeq(j9sent[1], 1, Len(j9sent[1]) - 1)

TranslatedPrefixes ==
    {AttachLoadAgent, AttachLoadAgentPath, AttachDiagnostics,
     AttachGetSystemProperties, AttachGetAgentProperties}

Vocabulary == {load, properties, agentProperties, datadump, threaddump,
               dumpheap, inspectheap, setflag, printflag, jcmd}

\* the verbs TranslateCommand has a case for
TranslatedVerbs == Vocabulary \ {setflag, printflag}

\* C13 as claimed: every verb of the vocabulary, setflag and printflag
\* included, is translated to a string beginning with one of the five
\* OpenJ9 prefixes, and every other verb is returned verbatim.
C13_VocabularyTranslated ==
    j9sent # <<>>
        => IF cmd \in Vocabulary
           THEN \E prefix \in TranslatedPrefixes : HasPrefix(Translated, prefix)
           ELSE Translated = cmd

\* C13 amended: load, properties, agentProperties, datadump, threaddump,
\* dumpheap, inspectheap and jcmd are translated to a string beginning
\* with one of the five OpenJ9 prefixes, whatever the arguments; every
\* other verb, setflag and printflag included, is returned verbatim.
C13_TranslatorTotal ==
    j9sent # <<>>
        => IF cmd \in TranslatedVerbs
           THEN \E prefix \in TranslatedPrefixes : HasPrefix(Translated, prefix)
           ELSE Translated = cmd

C13_Witness ==
    /\ j9sent # <<>>
    /\ cmd = load
    /\ Len(in0) = 3
    /\ in0[2] = StrTrue
    /\ Translated = LoadAgentCall(AttachLoadAgentPath, in0[1], in0[3])

----------------------------------------------------------------------------
(* Claims about the coordinator's results (checked under Spec)             *)

IsAttachError(e) == e.msg = "jattach"

\* C14: every error AttachWithContext returns is one AttachError, made at
\* the coordinator, with the operation name and the caller's host PID, and
\* its Unwrap chain holds the error of the call that failed, the lookup,
\* setgid and setuid failures included.
C14_WrappedOnceWithCause ==
    (pc = "done" /\ err # <<>>)
        => /\ IsAttachError(err[1])
           /\ err[1].op \in {"get_process_info", "setgid", "setuid", "attach"}
           /\ err[1].pid = pid
           /\ \A i \in 2..Len(err) : ~IsAttachError(err[i])
           /\ cause # <<>>
           /\ \A i \in 1..Len(cause) : ErrorsIs(err, cause[i])

----------------------------------------------------------------------------
(* Claims about readResponse (checked under SpecReply)                     *)

\* readResponse has returned a Response for a load
LoadReplyParsed == pc = "readResponse_done" /\ cmd = load /\ resp # <<>>

\* the status a second line stands for, taken alone
SecondLineStatus(secondLine) ==
    IF HasPrefix(secondLine, ReturnCodePrefix)
    THEN Atoi(TrimSpace(From(secondLine, Len(ReturnCodePrefix))))
    ELSE IF IsDigit(secondLine[1]) \/ secondLine[1] = "-"
    THEN Atoi(secondLine)
    ELSE -1

\* C20 as claimed: for load, a second line that begins with "return code: "
\* or with a digit or '-' gives the status, whatever the first-line code
\* is; the first-line code is kept only when the second line is empty or
\* absent.
C20_SecondLineSupersedes ==
    LoadReplyParsed
        => IF SecondLine(reply) # <<>>
           THEN resp[1].Code = SecondLineStatus(SecondLine(reply))
           ELSE resp[1].Code = FirstLineCode(data)

\* C20 amended: for load, when the first-line code is 0, a second line
\* that begins with "return code: " gives the integer that follows it, one
\* that starts with a digit or '-' gives the line parsed as an integer (0
\* when the text is not an integer), and any other non-empty second line
\* gives -1; the first-line code is kept when it is not 0, or when the
\* second line is empty or absent.
C20_SecondLineWhenFirstIsZero ==
    LoadReplyParsed
        => IF FirstLineCode(data) = 0 /\ SecondLine(reply) # <<>>
           THEN resp[1].Code = SecondLineStatus(SecondLine(reply))
           ELSE resp[1].Code = FirstLineCode(data)

C20_Witness ==
    /\ LoadReplyParsed
    /\ FirstLineCode(data) = 0
    /\ HasPrefix(SecondLine(reply), ReturnCodePrefix)
    /\ resp[1].Code = 7

\* C21: for load, a reply whose first line is 0 and whose second line is
\* text that begins neither with "return code: " nor with a digit or '-'
\* gives status -1, and the body returned is the whole reply.
FailureMessage(secondLine) ==
    /\ secondLine # <<>>
    /\ ~HasPrefix(secondLine, ReturnCodePrefix)
    /\ ~(IsDigit(secondLine[1]) \/ secondLine[1] = "-")
C21_LoadFailureMessage ==
    (/\ LoadReplyParsed
     /\ TrimSpace(Line1(reply)) = <<"0">>
     /\ FailureMessage(SecondLine(reply)))
        => resp[1].Code = -1 /\ resp[1].Output = reply
C21_Witness ==
    /\ LoadReplyParsed
    /\ reply = <<"0", LF, "n", "o", SP, "a", "g", "e", "n", "t", LF>>
    /\ data = <<"0">>
    /\ resp[1].Code = -1
    /\ resp[1].Output = reply

\* C22: for every verb and every way the reply is split across reads, the
\* body of the Response is the complete reply and the status is the one of
\* the complete first line.
C22_CompleteReply ==
    (pc = "readResponse_done" /\ resp # <<>>)
        => /\ resp[1].Output = reply
           /\ cmd # load => resp[1].Code = FirstLineCode(reply)
           /\ cmd = load =>
                resp[1].Code = LoadCode(FirstLineCode(reply), reply)

\* C32: the credentials adopted and the namespaces entered are never given
\* up again, and an Attach call that follows another starts under the
\* identity and in the namespaces the earlier calls left.
C32_NeverRestored ==
    /\ [][/\ egid = "target" => egid' = "target"
          /\ euid = "target" => euid' = "target"
          /\ \A t \in Threads : tns[t] \subseteq tns'[t]]_vars
    /\ []((pc = "GetProcessInfo" /\ ran.who = "attach")
            => (ran.gid = egid /\ ran.uid = euid /\ ran.ns = entered))

\* C31: writeCommand leaves the caller's argument slice as it was: once
\* the frame was written, every element of args has the value it had at
\* the call.
C31_ArgsUnchanged ==
    pc = "frame_done" => args = in0

\* C30: the Timeout of the client's options bounds the wait for the HotSpot
\* socket: no poll iteration runs once that much time has passed, and the
\* wait is not given up as timed out before.
C30_TimeoutOption ==
    /\ pc \in {"hs_sock", "hs_alive", "hs_sleep"} => now < clientOptions.Timeout
    /\ (pc = "sam_return" /\ perr = <<SocketTimeout>>)
          => ~(now < clientOptions.Timeout)

\* C29: printUnescaped prints the payload unescaped in a single pass from
\* left to right: each of \f, \n, \r, \t and \\ gives its character, and
\* a character an escape produced is not read again as part of an escape.
C29_SinglePass ==
    LET RECURSIVE Unescape(_)
        Unescape(s) ==
            IF s = <<>> THEN <<>>
            ELSE IF Len(s) >= 2 /\ s[1] = BS /\ s[2] \in {"f", "n", "r", "t", BS}
            THEN <<CASE s[2] = "f" -> "FF" [] s[2] = "n" -> LF
                     [] s[2] = "r" -> CR [] s[2] = "t" -> "TAB"
                     [] OTHER -> BS>> \o Unescape(From(s, 2))
            ELSE <<s[1]>> \o Unescape(Tail(s))
        payload == From(reply, Len(StringResult))
        trimmed == IF Len(payload) > 0 /\ payload[Len(payload)] = LF
                   THEN SubSeq(payload, 1, Len(payload) - 1) ELSE payload
    IN pc # "j9_print" => stdout = Unescape(trimmed) \o <<LF>>

\* C28: once a reply was read, ATTACH_DETACHED and its NUL are written
\* exactly when the parsed status is not 1, after the command and its reply
\* and while the connection is open; without a reply nothing is written
\* after the command.
Detached == <<"A", "T", "T", "A", "C", "H", "_", "D", "E", "T", "A", "C", "H",
              "E", "D", NUL>>
DetachSent(sent) == \E i \in 1..Len(sent) : sent[i] = Detached
C28_Detach ==
    /\ []((pc = "proto_return" /\ resp # <<>>)
            => (DetachSent(j9sent) <=> resp[1].Code # 1))
    /\ [](resp = <<>> => ~DetachSent(j9sent))
    /\ [][(DetachSent(j9sent') /\ ~DetachSent(j9sent))
            => /\ conn = "open" /\ conn' = "open"
               /\ resp # <<>> /\ reply # <<>>
               /\ Len(j9sent) = 1
               /\ j9sent' = Append(j9sent, Detached)]_vars
C28_Witness ==
    /\ pc = "proto_return"
    /\ conn = "closed"
    /\ cmd = load
    /\ resp # <<>>
    /\ resp[1].Code = -3
    /\ DetachSent(j9sent)

\* C27: the reply read ends at the first NUL received: the body is the
\* bytes before the first NUL the JVM sent, and a reply without any NUL is
\* an error.
C27_ReplyFraming ==
    LET HasNUL == \E k \in 1..Len(reply) : reply[k] = NUL
        FirstNUL == CHOOSE k \in 1..Len(reply) :
                        /\ reply[k] = NUL
                        /\ \A j \in 1..(k - 1) : reply[j] # NUL
    IN (pc = "proto_return" /\ Len(j9sent) > 0)
          => IF HasNUL
             THEN /\ resp # <<>>
                  /\ resp[1].Output = SubSeq(reply, 1, FirstNUL - 1)
             ELSE resp = <<>> /\ perr # <<>>

\* C26: once a peer has connected, the attach ends, with _attachlock
\* released, even when the peer sends fewer than 35 bytes and keeps the
\* connection open.
C26_HandshakeBounded ==
    (pc \in {"j9_auth", "j9_auth_read"})
        ~> (pc = "done" /\ attachLock = "released")

\* C25: the token is examined in every poll iteration before the socket
\* check; an iteration that finds it cancelled returns the cancellation error,
\* after which the trigger file is gone and no connect or command write
\* happens; a SIGQUIT once sent stays sent.
Cancelled(e) == e # <<>> /\ e[Len(e)] = Sentinel("context canceled")
C25_Cancellation ==
    /\ [][(pc' = "hs_sock" /\ pc # "hs_sock") => (pc = "hs_loop" /\ ~ctxDone)]_vars
    /\ [][(pc = "hs_loop" /\ pc' # pc /\ now < TimeoutMs /\ ctxDone)
            => (pc' = "sam_return" /\ Cancelled(perr'))]_vars
    /\ [][sigquit \subseteq sigquit']_vars
    /\ []((pc \in {"proto_return", "done"} /\ (Cancelled(perr) \/ Cancelled(err)))
            => (trigFiles = {} /\ conn = "none" /\ wire = <<>>))

\* C24: when <tmpPath>/.java_pid<nspid> is a socket at the first check,
\* AttachHotSpot goes straight to the connect, with no trigger file, no
\* SIGQUIT and no poll; when it is absent or is not a socket, the trigger
\* phase runs.
C24_TriggerGating ==
    /\ [][(pc = "hs_checkSocket" /\ pc' # pc)
            => IF sockFile = "socket"
               THEN /\ pc' = "hs_dial"
                    /\ UNCHANGED <<attachPath, trigFiles, created, sigquit,
                                   now, delay>>
               ELSE pc' = "hs_open"]_vars
    /\ []((pc \in {"hs_dial", "hs_write", "hs_read"} /\ sigquit = {})
            => (created = {} /\ trigFiles = {} /\ attachPath = NoPath))
C24_Witness ==
    /\ pc = "done"
    /\ err = <<>>
    /\ resp # <<>>
    /\ sockFile = "socket"
    /\ sigquit = {}
    /\ created = {}
    /\ attachPath = NoPath

\* C23: SIGQUIT goes to the host PID only, and only once the trigger file
\* at attachPath was created; the client removes a trigger file only on the
\* way to the fallback, before any SIGQUIT, or when startAttachMechanism
\* returns, after the poll loop; when the fallback cannot be created
\* either, no SIGQUIT is sent and the attach fails.
PollPcs == {"hs_loop", "hs_sock", "hs_alive", "hs_sleep"}
C23_TriggerOrdering ==
    /\ [](sigquit \subseteq {pid})
    /\ [](sigquit # {} => attachPath.dir \in created)
    /\ [][trigFiles' # trigFiles /\ ~(trigFiles \subseteq trigFiles')
            => \/ pc = "hs_remove" /\ sigquit = {}
               \/ pc = "sam_return"]_vars
    /\ [](pc \in PollPcs => ~(\E i \in 1..Len(relLog) :
                                relLog[i] = "os.Remove(attachPath)"))
    /\ []((pc = "done" /\ attachPath.dir = "tmp" /\ "tmp" \notin created)
            => (sigquit = {} /\ err # <<>>))
C23_Witness ==
    /\ pc = "done"
    /\ pid # nspid
    /\ sigquit = {pid}
    /\ attachPath.dir = "tmp"
    /\ created = {"cwd", "tmp"}
    /\ relLog # <<>>
    /\ relLog[1] = "os.Remove(attachPath)"

\* C16: the temporary directory is the option's path when that is not
\* empty; else the JATTACH_PATH of the environment when that is not empty;
\* else the platform path of the process when it resolves; else /tmp.
C16_TmpPathPrecedence ==
    tmpPath # ""
        => /\ tmpIn.opt # "" => tmpPath = tmpIn.opt
           /\ (tmpIn.opt = "" /\ tmpIn.env # "") => tmpPath = tmpIn.env
           /\ (tmpIn.opt = "" /\ tmpIn.env = "" /\ tmpIn.platformOK)
                => tmpPath = "/proc/<pid>/root/tmp"
           /\ (tmpIn.opt = "" /\ tmpIn.env = "" /\ ~tmpIn.platformOK)
                => tmpPath = "/tmp"

C16_Witness ==
    /\ pc = "done"
    /\ tmpIn.opt # ""
    /\ tmpIn.env # ""
    /\ tmpIn.platformOK
    /\ tmpPath = tmpIn.opt

\* no step of either protocol has been performed
NoProtocolStep ==
    /\ jvmType = "Unknown"
    /\ tmpPath = ""
    /\ trigFiles = {} /\ created = {} /\ sigquit = {}
    /\ attachLock = "none" /\ listener = "none" /\ ~replyInfo
    /\ conn = "none" /\ wire = <<>> /\ j9sent = <<>>

\* C17: the GID is adopted after the loop over the namespaces and before
\* the UID; when setgid or setuid fails, the attach returns an error that
\* is ErrPermissionDenied and no protocol step has been performed.
C17_CredentialAdoption ==
    /\ [][egid' # egid => (nsIdx = Len(NsTypes) /\ euid = "self"
                             /\ egid' = "target")]_vars
    /\ [][euid' # euid => (nsIdx = Len(NsTypes) /\ egid = "target"
                             /\ euid' = "target")]_vars
    /\ [](cause = Eperm
            => /\ pc = "done"
               /\ ErrorsIs(err, ErrPermissionDenied)
               /\ err[1].op \in {"setgid", "setuid"}
               /\ NoProtocolStep)
    /\ []((pc \notin CoordPcs /\ pc # "done") => (egid = "target" /\ euid = "target"))

C17_Witness ==
    /\ pc = "done"
    /\ cause = Eperm
    /\ err[1].op = "setuid"
    /\ egid = "target"
    /\ euid = "self"
    /\ nsIdx = Len(NsTypes)

\* C18: an attach runs on one OS thread from namespace entry on, every step
\* of it executes in exactly the namespaces the attach entered, and no
\* other goroutine ever executes in a namespace of the target or under its
\* credentials.
C18_ThreadAffinity ==
    /\ [][(entered # {} /\ pc # "done") => thr'["attach"] = thr["attach"]]_vars
    /\ [](ran.who = "attach" => ran.ns = entered)
    /\ [](ran.who = "other" =>
            ran.ns = {} /\ ran.gid = "self" /\ ran.uid = "self")

\* C19: of the concurrent OpenJ9 clients of one tmpPath at most one is
\* between acquiring and releasing _attachlock, and a client writes or
\* deletes a replyInfo file, locks or unlocks notifier files and operates
\* the semaphore only while its flock of _attachlock is in force.
Between(c) ==
    \E i \in 1..Len(clients[c].defers) :
        clients[c].defers[i] = "releaseLock(attachLock)"
Mutations ==
    {"write replyInfo", "remove replyInfo", "lock notifiers",
     "unlock notifiers", "semop"}
C19_Serialized ==
    /\ Cardinality({c \in Clients : Between(c)}) <= 1
    /\ \A c \in Clients : Between(c) => kflock[AttachLockFile] = c
    /\ lastOp.op \in Mutations => lastOp.held
C19_Witness ==
    \E c, d \in Clients :
        /\ clients[c].at = "returned"
        /\ clients[d].at = "return"
        /\ Between(d)
        /\ lastOp = [who |-> d, op |-> "unlock notifiers", held |-> TRUE]
        /\ clients[d].notifLocks # <<>>

\* C33: concurrent OpenJ9 clients of one tmpPath never all wait for a file
\* lock that another client holds, in whatever order each of them reaches
\* the per-JVM directories; a client requests a notifier lock only while
\* it holds _attachlock, and the notifier lock it requests is then free, so
\* that its lock acquisition is never held up by another client.
Blocked(c) ==
    \/ /\ clients[c].at = "lock"
       /\ kflock[AttachLockFile] \notin {NoClient, c}
    \/ /\ clients[c].at = "flock"
       /\ kflock[clients[c].want] \notin {NoClient, c}
C33_NoLockDeadlock ==
    /\ \E c \in Clients : ~Blocked(c)
    /\ \A c \in Clients :
          clients[c].at = "flock"
              => /\ kflock[AttachLockFile] = c
                 /\ kflock[clients[c].want] = NoClient
C33_Witness ==
    \E c, d \in Clients :
        /\ clients[c].at = "flock"
        /\ clients[c].notifLocks # <<>>
        /\ clients[c].want < clients[c].notifLocks[1]
        /\ Blocked(d)

\* C35 as claimed: parsing the status of a HotSpot reply never fails. A
\* first line that is not a decimal integer gives status 0 and no error,
\* and so does, for load with a first-line code of 0, a second line that
\* begins with "return code: " or with a digit or '-' and whose number is
\* not a decimal integer.
IsInteger(t) ==
    /\ Len(t) > 0
    /\ LET digits == IF t[1] \in {"-", "+"} THEN Tail(t) ELSE t
       IN Len(digits) > 0 /\ \A i \in 1..Len(digits) : IsDigit(digits[i])
UnparsedSecondLine(secondLine) ==
    IF HasPrefix(secondLine, ReturnCodePrefix)
    THEN ~IsInteger(TrimSpace(From(secondLine, Len(ReturnCodePrefix))))
    ELSE /\ secondLine # <<>>
         /\ IsDigit(secondLine[1]) \/ secondLine[1] = "-"
         /\ ~IsInteger(secondLine)
ReplyParsed == pc = "readResponse_done" /\ reply # <<>>
C35_UnparsedIsZero ==
    ReplyParsed
        => /\ ~IsInteger(TrimSpace(Line1(data)))
                => resp # <<>> /\ resp[1].Code = 0 /\ perr = <<>>
           /\ (/\ cmd = load
               /\ FirstLineCode(data) = 0
               /\ UnparsedSecondLine(SecondLine(reply)))
                => resp # <<>> /\ resp[1].Code = 0 /\ perr = <<>>

\* C35 amended: parsing the status of a HotSpot reply never fails, and a
\* first line that is not a decimal integer counts as a first-line code of
\* 0. It gives status 0 for every verb but load, and for load when the
\* second line is empty or absent or begins with "return code: " or with a
\* digit or '-' and has a number that is not a decimal integer; a load
\* reply with any other second line has its status from that line.
C35_UnparsedCountsAsZero ==
    ReplyParsed
        => /\ resp # <<>> /\ perr = <<>>
           /\ (/\ ~IsInteger(TrimSpace(Line1(data)))
               /\ cmd # load \/ SecondLine(reply) = <<>>)
                => resp[1].Code = 0
           /\ (/\ cmd = load
               /\ FirstLineCode(data) = 0
               /\ UnparsedSecondLine(SecondLine(reply)))
                => resp[1].Code = 0
           /\ (/\ cmd = load
               /\ ~IsInteger(TrimSpace(Line1(data)))
               /\ SecondLine(reply) # <<>>
               /\ ~UnparsedSecondLine(SecondLine(reply)))
                => resp[1].Code = SecondLineStatus(SecondLine(reply))
C35_Witness ==
    /\ ReplyParsed
    /\ cmd = load
    /\ TrimSpace(Line1(data)) = <<"x">>
    /\ SecondLine(reply) = <<"1", "2", "a", "b">>
    /\ resp = <<[Code |-> 0, Output |-> reply]>>
    /\ perr = <<>>

\* C34 as claimed: the Response does not depend on PrintOutput. The
\* status and the body returned are those returned with PrintOutput off
\* for the same verb, arguments and bytes read, for a HotSpot reply and
\* for an OpenJ9 reply, a diagnostic string result included.
C34_OutputIndependent ==
    /\ (pc = "readResponse_done" /\ resp # <<>>)
          => resp[1] = [Code |-> ResponseCode(cmd, data, reply),
                        Output |-> ResponseOutput(cmd, data, reply)]
    /\ (pc \in {"j9_detach", "proto_return"} /\ resp # <<>>)
          => LET off == ReadResponseOpenJ9(TranslateCommand(cmd, args),
                                          SubSeq(data, 1, Len(data) - 1),
                                          FALSE)
             IN resp[1] = [Code |-> off.Code, Output |-> off.Output]

====
